---- MODULE Spec2Model ----
(***************************************************************************)
(* Model of the extractforms extraction core: typed value normalization,   *)
(* confidence reconciliation, result assembly, the concurrent extraction   *)
(* collector and the sync/async runner.                                    *)
(*                                                                         *)
(* Strings are sequences of one-character strings, so that trimming,       *)
(* filtering and decimal parsing are computed character by character.      *)
(***************************************************************************)
EXTENDS Integers, Sequences, FiniteSets, TLC

VARIABLES
    pc,          \* position of the operation under way
    arg,         \* inputs of the operation (a record)
    ret,         \* what the operation has produced so far
    tasks,       \* the awaitables handed to the asyncio.gather under way
    done_order,  \* indexes of the tasks of this gather, in completion order
    answers,     \* what the backend answers to each (pages, keys) call made so far
    extracted,   \* paged_values + non_paged_values of _collect_schema_values
    calls,       \* every backend extract call started, in start order
    threads,     \* background threads started by run_async
    store,       \* the schema files of the schema store, in list_schemas order
    trace        \* what run_extract has done so far, in order

collectVars == <<tasks, done_order, answers, extracted, calls, threads>>

runVars == <<store, trace>>

vars == <<pc, arg, ret, tasks, done_order, answers, extracted, calls, threads, store, trace>>

(***************************************************************************)
(* Bounds                                                                   *)
(***************************************************************************)
MaxLen == 3          \* longest raw value string drawn for the normalizer
MaxValues == 2       \* longest list of observations drawn for the assembler
MaxObsLen == 2       \* longest raw value of an observation drawn for the reconciler
MaxFields == 2       \* most fields of a schema handed to the collector
MaxPage == 2         \* highest page number of a document handed to the collector
MaxChunk == 2        \* highest request.chunk_pages drawn
MaxConcurrency == 1  \* highest settings.openai_concurrency drawn
MaxRouteFields == 3  \* most fields of a schema handed to the page router
MaxSelected == 3     \* highest page number of a page selection analysis
MaxCalls == 2        \* longest list of pricing calls merged
MaxTokens == 1       \* highest token count of a pricing call
MaxStored == 2       \* most schema files in the schema store

None == "None"       \* Python None, for a string-valued or enum-valued attribute

\* Python None where a FieldValue is expected (by_key.get(key) of a missing key)
Absent == [key |-> None, value |-> <<>>, page |-> 0, confidence |-> "unknown"]

\* The default settings.null_sentinel
NULL == <<"N", "U", "L", "L">>

(***************************************************************************)
(* Characters and strings                                                   *)
(***************************************************************************)
Alphabet == {"0", "1", "+", " ", ",", ".", "%", "A", "a"}

Str(n) == UNION {[1..k -> Alphabet] : k \in 0..n}

IsSpace(ch) == ch = " "

IsDigit(ch) == ch \in {"0", "1", "2", "3", "4", "5", "6", "7", "8", "9"}

RECURSIVE LStrip(_)
LStrip(s) == IF s # <<>> /\ IsSpace(Head(s)) THEN LStrip(Tail(s)) ELSE s

RECURSIVE RStrip(_)
RStrip(s) ==
    IF s # <<>> /\ IsSpace(s[Len(s)]) THEN RStrip(SubSeq(s, 1, Len(s) - 1)) ELSE s

\* str.strip()
Strip(s) == RStrip(LStrip(s))

\* str.rstrip(ch)
RECURSIVE RStripChar(_, _)
RStripChar(s, ch) ==
    IF s # <<>> /\ s[Len(s)] = ch THEN RStripChar(SubSeq(s, 1, Len(s) - 1), ch) ELSE s

\* str.replace(ch, "")
Remove(s, ch) == SelectSeq(s, LAMBDA c : c # ch)

\* str.replace(old, new) for single characters
Replace(s, old, new) == [i \in 1..Len(s) |-> IF s[i] = old THEN new ELSE s[i]]

\* str.count(ch)
Count(s, ch) == Cardinality({i \in 1..Len(s) : s[i] = ch})

\* str.startswith(prefix)
StartsWith(s, prefix) ==
    Len(s) >= Len(prefix) /\ SubSeq(s, 1, Len(prefix)) = prefix

\* ch in s
Contains(s, ch) == \E i \in 1..Len(s) : s[i] = ch

LowerChar(ch) == IF ch = "A" THEN "a" ELSE ch

\* str.lower()
Lower(s) == [i \in 1..Len(s) |-> LowerChar(s[i])]

\* " ".join(s.split()): runs of whitespace collapse to one space, none at the ends
RECURSIVE CollapseFrom(_, _)
CollapseFrom(s, pendingSpace) ==
    IF s = <<>> THEN <<>>
    ELSE IF IsSpace(Head(s)) THEN CollapseFrom(Tail(s), TRUE)
    ELSE (IF pendingSpace THEN <<" ">> ELSE <<>>) \o <<Head(s)>> \o CollapseFrom(Tail(s), FALSE)

JoinSplit(s) == CollapseFrom(LStrip(s), FALSE)

(***************************************************************************)
(* Decimal(compact), number.normalize() and format(number, "f")             *)
(***************************************************************************)
IsSign(ch) == ch \in {"+", "-"}

Unsigned(s) == IF s # <<>> /\ IsSign(Head(s)) THEN Tail(s) ELSE s

\* The numeric-string syntax Decimal accepts, for strings without exponent,
\* "Infinity" or "NaN": [sign] digits [. [digits]] | [sign] . digits
DecimalValid(s) ==
    LET body == Unsigned(s)
    IN  /\ \A i \in 1..Len(body) : IsDigit(body[i]) \/ body[i] = "."
        /\ Count(body, ".") <= 1
        /\ \E i \in 1..Len(body) : IsDigit(body[i])

DotAt(body) ==
    IF Contains(body, ".") THEN CHOOSE i \in 1..Len(body) : body[i] = "." ELSE Len(body) + 1

RECURSIVE LStripChar(_, _)
LStripChar(s, ch) == IF s # <<>> /\ Head(s) = ch THEN LStripChar(Tail(s), ch) ELSE s

\* format(Decimal(s).normalize(), "f"): no leading zeros in the integer part,
\* no trailing zeros in the fraction, no sign on a non-negative number.
DecimalFormat(s) ==
    LET body == Unsigned(s)
        dot == DotAt(body)
        intPart == LStripChar(SubSeq(body, 1, dot - 1), "0")
        fracPart == RStripChar(SubSeq(body, dot + 1, Len(body)), "0")
        sign == IF s # <<>> /\ Head(s) = "-" THEN <<"-">> ELSE <<>>
    IN  sign \o (IF intPart = <<>> THEN <<"0">> ELSE intPart)
             \o (IF fracPart = <<>> THEN <<>> ELSE <<".">> \o fracPart)

(***************************************************************************)
(* processing/normalization.py                                              *)
(***************************************************************************)
_normalize_phone(value) ==
    LET compact == SelectSeq(value, LAMBDA ch : IsDigit(ch) \/ ch = "+")
    IN  IF StartsWith(compact, <<"0", "0">>)
        THEN <<"+">> \o SubSeq(compact, 3, Len(compact))
        ELSE IF Count(compact, "+") > 1 THEN Remove(compact, "+")
        ELSE compact

_normalize_decimal(value) ==
    LET compact == Replace(Remove(value, " "), ",", ".")
    IN  IF ~DecimalValid(compact) THEN value
        ELSE LET normalized == DecimalFormat(compact)
             IN  IF Contains(normalized, ".")
                 THEN RStripChar(RStripChar(normalized, "0"), ".")
                 ELSE normalized

_normalize_percentage(value) ==
    LET compact == Strip(Remove(value, "%"))
    IN  _normalize_decimal(compact) \o <<"%">>

\* schema_field is a record with kind and semantic_type (None when unset)
normalize_typed_value(value, schema_field, null_sentinel) ==
    LET stripped == Strip(value)
        semantic_type == schema_field.semantic_type
        kind == schema_field.kind
    IN  IF stripped = <<>> \/ stripped = null_sentinel THEN null_sentinel
        ELSE IF semantic_type = "phone" \/ kind = "phone" THEN _normalize_phone(stripped)
        ELSE IF semantic_type = "amount" \/ kind = "amount" THEN _normalize_decimal(stripped)
        ELSE IF semantic_type = "percentage" THEN _normalize_percentage(stripped)
        ELSE IF semantic_type = "address" \/ kind = "address" THEN JoinSplit(stripped)
        ELSE IF semantic_type = "email" \/ kind = "email" THEN Lower(stripped)
        ELSE stripped

(***************************************************************************)
(* extractor.py: confidence reconciliation                                  *)
(***************************************************************************)
ConfidenceLevel == {"unknown", "low", "medium", "high"}

_confidence_rank(confidence) ==
    CASE confidence = "unknown" -> 0
      [] confidence = "low" -> 1
      [] confidence = "medium" -> 2
      [] confidence = "high" -> 3

IsBlank(value) == Strip(value) = <<>>

\* Variant: a candidate of equal rank replaces the current value
_select_better_value_last_seen(current, candidate) ==
    IF current = Absent THEN candidate
    ELSE LET current_blank == IsBlank(current.value)
             candidate_blank == IsBlank(candidate.value)
         IN  IF current_blank /\ ~candidate_blank THEN candidate
             ELSE IF ~current_blank /\ candidate_blank THEN current
             ELSE IF _confidence_rank(candidate.confidence) >= _confidence_rank(current.confidence)
                  THEN candidate
             ELSE current

\* current is Absent or a FieldValue record [key, value, page, confidence]
\* (page 0 stands for page=None)
_select_better_value(current, candidate) ==
    IF current = Absent THEN candidate
    ELSE LET current_blank == IsBlank(current.value)
             candidate_blank == IsBlank(candidate.value)
         IN  IF current_blank /\ ~candidate_blank THEN candidate
             ELSE IF ~current_blank /\ candidate_blank THEN current
             ELSE IF _confidence_rank(candidate.confidence) > _confidence_rank(current.confidence)
                  THEN candidate
             ELSE current

(***************************************************************************)
(* A dict keyed by field key, in insertion order: a sequence of FieldValue  *)
(* records with pairwise different keys.                                    *)
(***************************************************************************)
DictGet(by_key, key) ==
    IF \E i \in 1..Len(by_key) : by_key[i].key = key
    THEN by_key[CHOOSE i \in 1..Len(by_key) : by_key[i].key = key]
    ELSE Absent

\* by_key[key] = item: replaces in place, or appends a new key
DictSet(by_key, key, item) ==
    IF \E i \in 1..Len(by_key) : by_key[i].key = key
    THEN [i \in 1..Len(by_key) |-> IF by_key[i].key = key THEN item ELSE by_key[i]]
    ELSE Append(by_key, item)

\* for value in values: by_key[value.key] = _select_better_value(by_key.get(value.key), value)
RECURSIVE ReconcileInto(_, _)
ReconcileInto(by_key, values) ==
    IF values = <<>> THEN by_key
    ELSE LET value == Head(values)
         IN  ReconcileInto(
                 DictSet(by_key, value.key, _select_better_value(DictGet(by_key, value.key), value)),
                 Tail(values))

(***************************************************************************)
(* extractor.py: _build_result                                              *)
(***************************************************************************)
\* Variant: a field without observation gets the literal "NULL" rather than
\* the configured sentinel
NormalizedValue_literal_null(schema_field, by_key, null_sentinel) ==
    LET field_value == DictGet(by_key, schema_field.key)
    IN  IF field_value = Absent
        THEN [key |-> schema_field.key, value |-> NULL,
              page |-> schema_field.page, confidence |-> "unknown"]
        ELSE IF IsBlank(field_value.value)
        THEN [key |-> schema_field.key, value |-> null_sentinel,
              page |-> field_value.page, confidence |-> field_value.confidence]
        ELSE [field_value EXCEPT
                !.value = normalize_typed_value(field_value.value, schema_field, null_sentinel)]

\* The FieldValue emitted for one schema field
NormalizedValue(schema_field, by_key, null_sentinel) ==
    LET field_value == DictGet(by_key, schema_field.key)
    IN  IF field_value = Absent
        THEN [key |-> schema_field.key, value |-> null_sentinel,
              page |-> schema_field.page, confidence |-> "unknown"]
        ELSE IF IsBlank(field_value.value)
        THEN [key |-> schema_field.key, value |-> null_sentinel,
              page |-> field_value.page, confidence |-> field_value.confidence]
        ELSE [field_value EXCEPT
                !.value = normalize_typed_value(field_value.value, schema_field, null_sentinel)]

\* flat[normalized_value.key] = normalized_value.value, field after field
RECURSIVE FlatOf(_)
FlatOf(normalized) ==
    IF normalized = <<>> THEN <<>>
    ELSE LET last == normalized[Len(normalized)]
             before == FlatOf(SubSeq(normalized, 1, Len(normalized) - 1))
         IN  [k \in (DOMAIN before) \cup {last.key} |->
                 IF k = last.key THEN last.value ELSE before[k]]

\* Variant: flat is filled from the reconciled observations, not from the
\* schema fields
_build_result_flat_of_observations(schema, values, null_sentinel) ==
    LET by_key == ReconcileInto(<<>>, values)
        normalized == [i \in 1..Len(schema) |-> NormalizedValue(schema[i], by_key, null_sentinel)]
    IN  [fields |-> normalized,
         flat |-> FlatOf(by_key),
         schema_fields_count |-> Len(schema)]

_build_result(schema, values, null_sentinel) ==
    LET by_key == ReconcileInto(<<>>, values)
        normalized == [i \in 1..Len(schema) |-> NormalizedValue(schema[i], by_key, null_sentinel)]
    IN  [fields |-> normalized,
         flat |-> FlatOf(normalized),
         schema_fields_count |-> Len(schema)]

(***************************************************************************)
(* Inputs drawn for the pure functions                                      *)
(***************************************************************************)
FieldKind == {"unknown", "phone", "amount", "address", "email"}

FieldSemanticType == {"phone", "amount", "percentage", "address", "email"}

FieldTypes == [kind : FieldKind, semantic_type : FieldSemanticType \cup {None}]

Sentinels == {NULL, <<"a">>}

\* Raw values a backend observation carries in the reconciler and assembler
ObsAlphabet == {" ", "x", "0"}

ObsStr == UNION {[1..k -> ObsAlphabet] : k \in 0..MaxObsLen}

(***************************************************************************)
(* Typed value normalizer applied to a raw value, then to its own output    *)
(***************************************************************************)
\* No collection is under way while a pure function is exercised
CollectIdle ==
    /\ tasks = <<>>
    /\ done_order = <<>>
    /\ answers = <<>>
    /\ extracted = <<>>
    /\ calls = <<>>
    /\ threads = 0

\* No run_extract is under way either
NoRun ==
    /\ store = <<>>
    /\ trace = <<>>

InitNormalize ==
    /\ pc = "normalize"
    /\ arg \in [value : Str(MaxLen), schema_field : FieldTypes, null_sentinel : Sentinels]
    /\ ret = <<>>
    /\ CollectIdle
    /\ NoRun

Normalize ==
    /\ pc = "normalize"
    /\ ret' = <<normalize_typed_value(arg.value, arg.schema_field, arg.null_sentinel)>>
    /\ pc' = "renormalize"
    /\ UNCHANGED <<arg, collectVars, runVars>>

Renormalize ==
    /\ pc = "renormalize"
    /\ ret' = Append(ret, normalize_typed_value(ret[1], arg.schema_field, arg.null_sentinel))
    /\ pc' = "normalized"
    /\ UNCHANGED <<arg, collectVars, runVars>>

NextNormalize == Normalize \/ Renormalize

SpecNormalize == InitNormalize /\ [][NextNormalize]_vars

(***************************************************************************)
(* Phone normalization of one number written with "00" and with "+"         *)
(***************************************************************************)
PhoneFields == {f \in FieldTypes : f.kind = "phone" \/ f.semantic_type = "phone"}

InitPhone ==
    /\ pc = "phone"
    /\ arg \in [s : Str(MaxLen), schema_field : PhoneFields, null_sentinel : Sentinels]
    /\ ret = <<>>
    /\ CollectIdle
    /\ NoRun

NormalizePhonePair ==
    /\ pc = "phone"
    /\ ret' = <<normalize_typed_value(<<"0", "0">> \o arg.s, arg.schema_field, arg.null_sentinel),
                normalize_typed_value(<<"+">> \o arg.s, arg.schema_field, arg.null_sentinel)>>
    /\ pc' = "phoned"
    /\ UNCHANGED <<arg, collectVars, runVars>>

NextPhone == NormalizePhonePair

SpecPhone == InitPhone /\ [][NextPhone]_vars

(***************************************************************************)
(* Confidence reconciler applied to one pair                                *)
(***************************************************************************)
SelectValues == [key : {"a"}, value : ObsStr, page : {0}, confidence : ConfidenceLevel]

InitSelect ==
    /\ pc = "select"
    /\ arg \in [current : SelectValues \cup {Absent}, candidate : SelectValues]
    /\ ret = <<>>
    /\ CollectIdle
    /\ NoRun

Select ==
    /\ pc = "select"
    /\ ret' = <<_select_better_value(arg.current, arg.candidate)>>
    /\ pc' = "selected"
    /\ UNCHANGED <<arg, collectVars, runVars>>

NextSelect == Select

SpecSelect == InitSelect /\ [][NextSelect]_vars

(***************************************************************************)
(* Result assembler applied to one schema and one list of observations      *)
(***************************************************************************)
AssembleTypes == {[kind |-> "unknown", semantic_type |-> None],
                  [kind |-> "phone", semantic_type |-> None]}

AssembleKeySeqs == {<<>>, <<"a">>, <<"b">>, <<"a", "b">>, <<"b", "a">>}

\* Schemas with pairwise different keys; page 0 stands for page=None
AssembleSchemas ==
    UNION {{[i \in 1..Len(ks) |->
                [key |-> ks[i], page |-> pg[i],
                 kind |-> ty[i].kind, semantic_type |-> ty[i].semantic_type]] :
             pg \in [1..Len(ks) -> {0, 1}], ty \in [1..Len(ks) -> AssembleTypes]} :
           ks \in AssembleKeySeqs}

AssembleStrs == {<<>>, <<" ">>, <<"x">>, <<"0", "0">>, NULL}

\* "z" is a key no schema has
AssembleValues == [key : {"a", "b", "z"}, value : AssembleStrs, page : {2},
                   confidence : {"low", "high"}]

InitAssemble ==
    /\ pc = "assemble"
    /\ arg \in [schema : AssembleSchemas,
                values : UNION {[1..n -> AssembleValues] : n \in 0..MaxValues},
                null_sentinel : Sentinels]
    /\ ret = <<>>
    /\ CollectIdle
    /\ NoRun

Assemble ==
    /\ pc = "assemble"
    /\ ret' = <<_build_result(arg.schema, arg.values, arg.null_sentinel)>>
    /\ pc' = "assembled"
    /\ UNCHANGED <<arg, collectVars, runVars>>

NextAssemble == Assemble

SpecAssemble == InitAssemble /\ [][NextAssemble]_vars

(***************************************************************************)
(* extractor.py: page routing                                               *)
(***************************************************************************)
\* Variant: the page map is not consulted
MappedPage_unmapped(page, page_map) == page

\* page_map.get(page, page) if page_map is not None else page
MappedPage(page, page_map) ==
    IF page_map # <<>> /\ page \in DOMAIN page_map THEN page_map[page] ELSE page

\* anchored_positions of _infer_sparse_keys_by_page: indexes of fields with a page
AnchoredPositions(schema) == {i \in 1..Len(schema) : schema[i].page # 0}

Abs(n) == IF n < 0 THEN -n ELSE n

\* Variant: of two equidistant anchors the later one is taken
NearestAnchor_last_minimum(schema, index) ==
    CHOOSE a \in AnchoredPositions(schema) :
        \A b \in AnchoredPositions(schema) :
            \/ Abs(a - index) < Abs(b - index)
            \/ Abs(a - index) = Abs(b - index) /\ a >= b

\* min(anchored_positions, key=abs(anchored[0] - index)): the first minimum
NearestAnchor(schema, index) ==
    CHOOSE a \in AnchoredPositions(schema) :
        \A b \in AnchoredPositions(schema) :
            \/ Abs(a - index) < Abs(b - index)
            \/ Abs(a - index) = Abs(b - index) /\ a <= b

\* The page _build_routed_keys_by_page files field i under (0: under no page)
RoutedPage(schema, i, page_map) ==
    IF schema[i].page # 0 THEN MappedPage(schema[i].page, page_map)
    ELSE IF AnchoredPositions(schema) = {} THEN 0
    ELSE MappedPage(schema[NearestAnchor(schema, i)].page, page_map)

SeqOfIndexes(schema, Keep(_)) ==
    SelectSeq([i \in 1..Len(schema) |-> i], Keep)

KeysAt(schema, indexes) == [n \in 1..Len(indexes) |-> schema[indexes[n]].key]

\* keys_by_page: for each routed page, the explicit keys in field order, then
\* the inferred keys in field order
_build_routed_keys_by_page(schema, page_map) ==
    LET routed == {RoutedPage(schema, i, page_map) : i \in 1..Len(schema)} \ {0}
    IN  [page \in routed |->
            KeysAt(schema, SeqOfIndexes(schema, LAMBDA i :
                       schema[i].page # 0 /\ RoutedPage(schema, i, page_map) = page))
            \o
            KeysAt(schema, SeqOfIndexes(schema, LAMBDA i :
                       schema[i].page = 0 /\ RoutedPage(schema, i, page_map) = page))]

\* The unresolved list of _infer_sparse_keys_by_page
_unresolved_sparse_keys(schema, page_map) ==
    IF AnchoredPositions(schema) = {}
    THEN KeysAt(schema, SeqOfIndexes(schema, LAMBDA i : schema[i].page = 0))
    ELSE <<>>

(***************************************************************************)
(* extractor.py: backend settings probes                                    *)
(***************************************************************************)
\* getattr(settings_obj, "openai_concurrency", 8), floor 1; declared says
\* whether the backend's settings have the attribute
_backend_concurrency(declared, openai_concurrency) ==
    LET concurrency == IF declared THEN openai_concurrency ELSE 8
    IN  IF concurrency > 1 THEN concurrency ELSE 1

\* The multimodal backend carries the settings; the OCR backend carries none
_backend_null_sentinel(backend_type, null_sentinel) ==
    IF backend_type = "multimodal" /\ null_sentinel # <<>> THEN null_sentinel ELSE NULL

(***************************************************************************)
(* extractor.py: chunking and the gathered calls                            *)
(***************************************************************************)
Min(a, b) == IF a < b THEN a ELSE b

\* Variant: only the full chunks, the pages after the last full chunk left out
PageBatches_full_chunks(pages, chunk_pages) ==
    LET normalized_chunk == IF chunk_pages > 1 THEN chunk_pages ELSE 1
    IN  IF normalized_chunk >= Len(pages) THEN <<pages>>
        ELSE [n \in 1..(Len(pages) \div normalized_chunk) |->
                SubSeq(pages, (n - 1) * normalized_chunk + 1, n * normalized_chunk)]

\* page_batches of _extract_values_for_keys
PageBatches(pages, chunk_pages) ==
    LET normalized_chunk == IF chunk_pages > 1 THEN chunk_pages ELSE 1
    IN  IF normalized_chunk >= Len(pages) THEN <<pages>>
        ELSE [n \in 1..((Len(pages) + normalized_chunk - 1) \div normalized_chunk) |->
                SubSeq(pages, (n - 1) * normalized_chunk + 1,
                       Min(n * normalized_chunk, Len(pages)))]

NewTask(pages, keys, st) == [pages |-> pages, keys |-> keys, st |-> st, result |-> <<>>]

\* [_extract_batch(batch) for batch in page_batches]; no task for an empty key list
BatchTasks(pages, keys, chunk_pages) ==
    IF keys = <<>> THEN <<>>
    ELSE LET page_batches == PageBatches(pages, chunk_pages)
         IN  [n \in 1..Len(page_batches) |-> NewTask(page_batches[n], keys, "created")]

SortedSeq(set) ==
    LET RECURSIVE Sorted(_)
        Sorted(rest) ==
            IF rest = {} THEN <<>>
            ELSE LET least == CHOOSE x \in rest : \A y \in rest : x <= y
                 IN  <<least>> \o Sorted(rest \ {least})
    IN  Sorted(set)

InSeq(x, seq) == \E i \in 1..Len(seq) : seq[i] = x

\* [_extract_one(page_number, keys) for page_number, keys in sorted(keys_by_page.items())];
\* _extract_one returns at once, without a backend call, for a page that was not rendered
PageGroupTasks(pages, keys_by_page) ==
    LET numbers == SortedSeq(DOMAIN keys_by_page)
    IN  [n \in 1..Len(numbers) |->
            NewTask(<<numbers[n]>>, keys_by_page[numbers[n]],
                    IF InSeq(numbers[n], pages) THEN "created" ELSE "skipped")]

RECURSIVE Concat(_)
Concat(seqs) == IF seqs = <<>> THEN <<>> ELSE Head(seqs) \o Concat(Tail(seqs))

\* Variant: the results in the order the calls completed (asyncio.as_completed)
GatherResults_as_completed(ts, order) == [i \in 1..Len(order) |-> ts[order[i]].result]

\* What asyncio.gather hands back: the results in the order of the awaitables
GatherResults(ts, order) == [i \in 1..Len(ts) |-> ts[i].result]

\* Field keys are single letters; sorted() orders them alphabetically
KeyOrder == <<"a", "b", "c", "d">>

SortedKeys(set) == SelectSeq(KeyOrder, LAMBDA k : k \in set)

\* Variant: once a key is missing, every page-routed key is asked again
_missing_paged_keys_all_routed(extracted_values, keys_by_page, backend_type, null_sentinel) ==
    LET extracted_non_blank ==
            {extracted_values[i].key : i \in
                {j \in 1..Len(extracted_values) :
                    /\ Strip(extracted_values[j].value) # <<>>
                    /\ Strip(extracted_values[j].value) \notin
                           {_backend_null_sentinel(backend_type, null_sentinel), NULL}}}
        paged_keys == UNION {{keys_by_page[p][i] : i \in 1..Len(keys_by_page[p])} :
                             p \in DOMAIN keys_by_page}
    IN  IF paged_keys \subseteq extracted_non_blank THEN <<>> ELSE SortedKeys(paged_keys)

_missing_paged_keys(extracted_values, keys_by_page, backend_type, null_sentinel) ==
    LET extracted_non_blank ==
            {extracted_values[i].key : i \in
                {j \in 1..Len(extracted_values) :
                    /\ Strip(extracted_values[j].value) # <<>>
                    /\ Strip(extracted_values[j].value) \notin
                           {_backend_null_sentinel(backend_type, null_sentinel), NULL}}}
        paged_keys == UNION {{keys_by_page[p][i] : i \in 1..Len(keys_by_page[p])} :
                             p \in DOMAIN keys_by_page}
    IN  SortedKeys(paged_keys \ extracted_non_blank)

(***************************************************************************)
(* The backend: what one extract call may answer                            *)
(***************************************************************************)
\* A value read off a page, different from page to page
PageText == <<"x", "y", "w", "v">>

\* The key is left out of the answer
Unreported == [value |-> <<>>, confidence |-> None]

\* What a call over pages may report for one key it was asked for: nothing,
\* a blank, the null sentinel, the string "NULL", or a value read off its
\* first page
Observations(pages, null_sentinel) ==
    {Unreported,
     [value |-> <<>>, confidence |-> "unknown"],
     [value |-> null_sentinel, confidence |-> "unknown"],
     [value |-> NULL, confidence |-> "unknown"],
     [value |-> <<PageText[Head(pages)]>>, confidence |-> "unknown"],
     [value |-> <<PageText[Head(pages)]>>, confidence |-> "high"]}

\* The backend answers a (pages, keys) call with at most one FieldValue per
\* requested key, in key order; reported[n] is what it reports for keys[n]
AnswerOf(pages, keys, reported) ==
    Concat([n \in 1..Len(keys) |->
               IF reported[n] = Unreported THEN <<>>
               ELSE <<[key |-> keys[n], value |-> reported[n].value,
                       page |-> Head(pages), confidence |-> reported[n].confidence]>>])

(***************************************************************************)
(* async_runner.py                                                          *)
(***************************************************************************)
\* run_async: asyncio.run(coro) when get_running_loop() raises, otherwise
\* _run_in_background_thread(coro)
RunsInBackgroundThread(loop_running) == loop_running

\* What the caller of run_async sees when the coroutine raised error:
\* _run_in_background_thread raises AsyncExecutionError(result=error) from it,
\* asyncio.run lets the error through
RunAsyncError(loop_running, error) ==
    IF RunsInBackgroundThread(loop_running) THEN "AsyncExecutionError" ELSE error

(***************************************************************************)
(* extract_values: run_async(_collect_schema_values(...)), then _build_result *)
(***************************************************************************)
FieldKeys == <<"a", "b", "c", "d">>

\* Schemas of at most MaxFields fields, field i has key FieldKeys[i]
CollectSchemas ==
    UNION {{[i \in 1..n |-> [key |-> FieldKeys[i], page |-> pg[i],
                             kind |-> "unknown", semantic_type |-> None]] :
             pg \in [1..n -> 0..MaxPage]} : n \in 1..MaxFields}

(***************************************************************************)
(* Page router applied to one schema                                        *)
(***************************************************************************)
\* Schemas of at most MaxRouteFields fields; page 0 stands for page=None
RouteSchemas ==
    UNION {{[i \in 1..n |-> [key |-> FieldKeys[i], page |-> pg[i],
                             kind |-> "unknown", semantic_type |-> None]] :
             pg \in [1..n -> 0..MaxPage]} : n \in 1..MaxRouteFields}

\* schema_page_map: None (<<>>) or a dict from schema pages to PDF pages
PageMaps ==
    UNION {[from -> 1..(MaxPage + 1)] : from \in SUBSET (1..MaxPage)}

InitRoute ==
    /\ pc = "route"
    /\ arg \in [schema : RouteSchemas, page_map : PageMaps]
    /\ ret = <<>>
    /\ CollectIdle
    /\ NoRun

Route ==
    /\ pc = "route"
    /\ ret' = <<_build_routed_keys_by_page(arg.schema, arg.page_map),
                _unresolved_sparse_keys(arg.schema, arg.page_map)>>
    /\ pc' = "routed"
    /\ UNCHANGED <<arg, collectVars, runVars>>

NextRoute == Route

SpecRoute == InitRoute /\ [][NextRoute]_vars

(***************************************************************************)
(* page_filtering.py: build_schema_page_mapping                             *)
(***************************************************************************)
\* analysis is a record [present, selected, nonblank]; present = FALSE stands
\* for analysis=None.  The dict returned has the keys 1..max_schema_page: it is
\* a sequence, <<>> for the empty dict.

\* Variant: the non-blank pages are used whenever there are any
build_schema_page_mapping_any_nonblank(schema, analysis) ==
    LET schema_pages == {schema[i].page : i \in 1..Len(schema)} \ {0}
        max_schema_page == CHOOSE page \in schema_pages : \A other \in schema_pages : other <= page
        selected == analysis.selected
        nonblank == analysis.nonblank
        identity == [page_number \in 1..max_schema_page |-> page_number]
    IN  IF schema_pages = {} THEN <<>>
        ELSE IF ~analysis.present THEN identity
        ELSE IF selected = <<>> THEN identity
        ELSE IF nonblank # <<>> /\ max_schema_page <= Len(nonblank)
             THEN [page_number \in 1..max_schema_page |-> nonblank[page_number]]
        ELSE identity

build_schema_page_mapping(schema, analysis) ==
    LET schema_pages == {schema[i].page : i \in 1..Len(schema)} \ {0}
        max_schema_page == CHOOSE page \in schema_pages : \A other \in schema_pages : other <= page
        selected == analysis.selected
        nonblank == analysis.nonblank
        has_blank_pages == nonblank # <<>> /\ Len(nonblank) < Len(selected)
        identity == [page_number \in 1..max_schema_page |-> page_number]
    IN  IF schema_pages = {} THEN <<>>
        ELSE IF ~analysis.present THEN identity
        ELSE IF selected = <<>> THEN identity
        ELSE IF has_blank_pages /\ max_schema_page <= Len(nonblank)
             THEN [page_number \in 1..max_schema_page |-> nonblank[page_number]]
        ELSE identity

\* PageSelectionAnalysis as analyze_page_selection builds it: the selected page
\* numbers, a range first_page..last_page in ascending order, and those of
\* them that are not blank
Analyses ==
    {[present |-> FALSE, selected |-> <<>>, nonblank |-> <<>>]}
    \cup UNION {{[present |-> TRUE, selected |-> SortedSeq(sel), nonblank |-> SortedSeq(non)] :
                    non \in SUBSET sel} :
                 sel \in {first_page..last_page : first_page \in 1..MaxSelected,
                                                  last_page \in 0..MaxSelected}}

InitPageMap ==
    /\ pc = "page_map"
    /\ arg \in [schema : RouteSchemas, analysis : Analyses]
    /\ ret = <<>>
    /\ CollectIdle
    /\ NoRun

BuildPageMap ==
    /\ pc = "page_map"
    /\ ret' = <<build_schema_page_mapping(arg.schema, arg.analysis)>>
    /\ pc' = "page_mapped"
    /\ UNCHANGED <<arg, collectVars, runVars>>

NextPageMap == BuildPageMap

SpecPageMap == InitPageMap /\ [][NextPageMap]_vars

(***************************************************************************)
(* pricing.py and PricingCall: combining pricing records                    *)
(***************************************************************************)
\* An optional number is <<>> for None and <<n>> for the known value n.
\* total_cost_usd is counted in units of 0.25 USD, which floats add exactly.
RECURSIVE SumSeq(_)
SumSeq(numbers) == IF numbers = <<>> THEN 0 ELSE Head(numbers) + SumSeq(Tail(numbers))

\* Variant: an unknown value counts as zero
_sum_optional_int_unknown_as_zero(values) ==
    LET known_values == Concat(values)
    IN  IF values = <<>> THEN <<>> ELSE <<SumSeq(known_values)>>

\* pricing.py: known_values = [value for value in values if value is not None]
_sum_optional_int(values) ==
    LET known_values == Concat(values)
    IN  IF known_values = <<>> THEN <<>> ELSE <<SumSeq(known_values)>>

_sum_optional_float(values) ==
    LET known_values == Concat(values)
    IN  IF known_values = <<>> THEN <<>> ELSE <<SumSeq(known_values)>>

\* merge_pricing_calls: <<>> for None, else the one aggregated PricingCall
merge_pricing_calls(pricing_calls) ==
    IF pricing_calls = <<>> THEN <<>>
    ELSE LET first == pricing_calls[1]
             count == Len(pricing_calls)
         IN  <<[provider |-> first.provider,
                model |-> first.model,
                input_tokens |->
                    _sum_optional_int([i \in 1..count |-> pricing_calls[i].input_tokens]),
                output_tokens |->
                    _sum_optional_int([i \in 1..count |-> pricing_calls[i].output_tokens]),
                total_cost_usd |->
                    _sum_optional_float([i \in 1..count |-> pricing_calls[i].total_cost_usd])]>>

\* typing/models/extraction.py: the two-argument _sum_optional_int and
\* _sum_optional_float of PricingCall.__add__
models_sum_optional_int(value1, value2) ==
    IF value1 = <<>> THEN value2
    ELSE IF value2 = <<>> THEN value1
    ELSE <<value1[1] + value2[1]>>

models_sum_optional_float(value1, value2) ==
    IF value1 = <<>> THEN value2
    ELSE IF value2 = <<>> THEN value1
    ELSE <<value1[1] + value2[1]>>

\* PricingCall.__add__: the error raised (None when none) and the value returned
PricingCall_add(self, other) ==
    IF self.provider # other.provider \/ self.model # other.model
    THEN [error |-> "ModelMismatchError", value |-> <<>>]
    ELSE [error |-> None,
          value |-> <<[provider |-> self.provider,
                       model |-> self.model,
                       input_tokens |->
                           models_sum_optional_int(self.input_tokens, other.input_tokens),
                       output_tokens |->
                           models_sum_optional_int(self.output_tokens, other.output_tokens),
                       total_cost_usd |->
                           models_sum_optional_float(self.total_cost_usd, other.total_cost_usd)]>>]

ProviderModels == {<<"x", "m">>, <<"x", "n">>, <<"y", "m">>}

PricingCalls ==
    {[provider |-> pm[1], model |-> pm[2], input_tokens |-> input,
      output_tokens |-> output, total_cost_usd |-> cost] :
        pm \in ProviderModels,
        input \in {<<>>} \cup {<<n>> : n \in 0..MaxTokens},
        output \in {<<>>, <<MaxTokens>>},
        cost \in {<<>>, <<1>>}}

RECURSIVE SeqsUpTo(_, _)
SeqsUpTo(set, n) ==
    IF n = 0 THEN {<<>>}
    ELSE LET shorter == SeqsUpTo(set, n - 1)
         IN  shorter \cup {Append(seq, x) : seq \in {q \in shorter : Len(q) = n - 1}, x \in set}

InitPricing ==
    /\ pc = "pricing"
    /\ arg \in [calls : SeqsUpTo(PricingCalls, MaxCalls)]
    /\ ret = <<>>
    /\ CollectIdle
    /\ NoRun

\* merge_pricing_calls(calls) returns
MergeCalls ==
    /\ pc = "pricing"
    /\ ret' = <<[error |-> None, value |-> merge_pricing_calls(arg.calls)]>>
    /\ pc' = "merged"
    /\ UNCHANGED <<arg, collectVars, runVars>>

\* calls[0] + calls[1] returns or raises
AddCalls ==
    /\ pc = "pricing"
    /\ Len(arg.calls) >= 2
    /\ ret' = <<PricingCall_add(arg.calls[1], arg.calls[2])>>
    /\ pc' = "added"
    /\ UNCHANGED <<arg, collectVars, runVars>>

NextPricing == MergeCalls \/ AddCalls

SpecPricing == InitPricing /\ [][NextPricing]_vars

\* The rendered pages: a non-empty ascending selection of the document's pages
PageLists == {SortedSeq(set) : set \in (SUBSET (1..MaxPage)) \ {{}}}

\* Variant: extract_one_pass leaves use_page_groups at its default
UsePageGroups_default(caller) == TRUE

\* The use_page_groups argument extract_values gets from its caller:
\* False from extract_one_pass, the default True from the other callers
UsePageGroups(caller) == caller # "extract_one_pass"

Init ==
    /\ arg \in [schema : CollectSchemas,
                caller : {"extract_one_pass", "_extract_with_schema"},
                pages : PageLists,
                chunk_pages : 0..MaxChunk,
                concurrency_declared : BOOLEAN,
                openai_concurrency : 0..MaxConcurrency,
                has_async : BOOLEAN,
                use_page_groups : BOOLEAN,
                loop_running : BOOLEAN,
                backend_type : {"multimodal"},
                null_sentinel : {NULL},
                page_map : {<<>>}]
    /\ arg.concurrency_declared \/ arg.openai_concurrency = 0
    \* a backend without aextract_values never suspends inside the semaphore:
    \* its concurrency setting has no effect and is not drawn
    /\ arg.has_async \/ ~arg.concurrency_declared
    /\ arg.use_page_groups = UsePageGroups(arg.caller)
    \* extract_one_pass infers the schema before it calls extract_values
    /\ pc = IF arg.caller = "extract_one_pass" THEN "start" ELSE "idle"
    /\ ret = <<>>
    /\ CollectIdle
    /\ NoRun

GatherPhases == {"schema_wide", "paged", "non_paged", "fallback"}

InFlight(ts) == Cardinality({i \in 1..Len(ts) : ts[i].st = "inflight"})

\* Variant: no semaphore, every call starts as soon as it is created
SemaphoreFree_unbounded(ts, limit) == InFlight(ts) < Len(ts) + limit

\* async with semaphore: entered only while fewer than the limit hold it
SemaphoreFree(ts, limit) == InFlight(ts) < limit

Finished(ts) == \A i \in 1..Len(ts) : ts[i].st \in {"done", "skipped"}

\* Variant: the routing table keeps the rendered pages only
KeysByPage_rendered_only ==
    LET keys_by_page == _build_routed_keys_by_page(arg.schema, arg.page_map)
    IN  [page \in {p \in DOMAIN keys_by_page : InSeq(p, arg.pages)} |-> keys_by_page[page]]

KeysByPage == _build_routed_keys_by_page(arg.schema, arg.page_map)

\* asyncio.Semaphore(_backend_concurrency(backend))
Limit == _backend_concurrency(arg.concurrency_declared, arg.openai_concurrency)

\* extract_one_pass: infer_schema makes one backend call over the rendered
\* pages, which returns the schema or raises
OnePassInferSchema ==
    /\ pc = "start"
    /\ calls' = Append(calls, [pages |-> arg.pages, keys |-> <<>>, phase |-> "infer_schema"])
    /\ \/ /\ pc' = "idle"
          /\ UNCHANGED ret
       \/ /\ pc' = "failed"
          /\ ret' = <<[ok |-> FALSE, error |-> "BackendError"]>>
    /\ UNCHANGED <<arg, tasks, done_order, answers, extracted, threads>>
    /\ UNCHANGED runVars

\* extract_values calls run_async, which starts _collect_schema_values up to
\* its first gather
ExtractValues ==
    /\ pc = "idle"
    /\ threads' = IF RunsInBackgroundThread(arg.loop_running) THEN threads + 1 ELSE threads
    /\ IF DOMAIN KeysByPage = {} \/ ~arg.use_page_groups
       THEN /\ tasks' = BatchTasks(arg.pages, KeysAt(arg.schema, [i \in 1..Len(arg.schema) |-> i]),
                                   arg.chunk_pages)
            /\ pc' = "schema_wide"
       ELSE /\ tasks' = PageGroupTasks(arg.pages, KeysByPage)
            /\ pc' = "paged"
    /\ UNCHANGED <<arg, ret, done_order, answers, extracted, calls>>
    /\ UNCHANGED runVars

\* The next task in creation order enters the semaphore and starts its call
Acquire(i) ==
    /\ pc \in GatherPhases
    /\ arg.has_async
    /\ tasks[i].st = "created"
    /\ \A j \in 1..(i - 1) : tasks[j].st # "created"
    /\ SemaphoreFree(tasks, Limit)
    /\ tasks' = [tasks EXCEPT ![i].st = "inflight"]
    /\ calls' = Append(calls, [pages |-> tasks[i].pages, keys |-> tasks[i].keys, phase |-> pc])
    /\ UNCHANGED <<pc, arg, ret, done_order, answers, extracted, threads>>
    /\ UNCHANGED runVars

\* What the backend may report for each key of call i
Reports(i) == [1..Len(tasks[i].keys) -> Observations(tasks[i].pages, arg.null_sentinel)]

\* The backend reports to call i what it reported for the same key over the
\* same pages before (answers remembers it): an answer is a function of the
\* call's pages and keys.
Answered(i, reported) ==
    LET pages == tasks[i].pages
        keys == tasks[i].keys
    IN  /\ \A n \in 1..Len(keys) :
              <<pages, keys[n]>> \in DOMAIN answers => reported[n] = answers[<<pages, keys[n]>>]
        /\ answers' = [shape \in DOMAIN answers \cup {<<pages, keys[n]>> : n \in 1..Len(keys)} |->
                          IF shape \in DOMAIN answers THEN answers[shape]
                          ELSE reported[CHOOSE n \in 1..Len(keys) : keys[n] = shape[2]]]

\* await extract_async(...) returns
Complete(i) ==
    /\ pc \in GatherPhases
    /\ tasks[i].st = "inflight"
    /\ \E reported \in Reports(i) :
          /\ Answered(i, reported)
          /\ tasks' = [tasks EXCEPT ![i].st = "done",
                                    ![i].result = AnswerOf(tasks[i].pages, tasks[i].keys, reported)]
    /\ done_order' = Append(done_order, i)
    /\ UNCHANGED <<pc, arg, ret, extracted, calls, threads>>
    /\ UNCHANGED runVars

\* await extract_async(...) raises a BackendError
Raise(i) ==
    /\ pc \in GatherPhases
    /\ tasks[i].st = "inflight"
    /\ tasks' = [tasks EXCEPT ![i].st = "raised"]
    /\ done_order' = Append(done_order, i)
    /\ UNCHANGED <<pc, arg, ret, answers, extracted, calls, threads>>
    /\ UNCHANGED runVars

\* backend.extract_values(...) of a backend without aextract_values: the task
\* runs from the semaphore to its return or its exception without suspending
SyncCall(i) ==
    /\ pc \in GatherPhases
    /\ ~arg.has_async
    /\ tasks[i].st = "created"
    /\ \A j \in 1..(i - 1) : tasks[j].st # "created"
    /\ calls' = Append(calls, [pages |-> tasks[i].pages, keys |-> tasks[i].keys, phase |-> pc])
    /\ done_order' = Append(done_order, i)
    /\ \/ \E reported \in Reports(i) :
             /\ Answered(i, reported)
             /\ tasks' = [tasks EXCEPT ![i].st = "done",
                                       ![i].result = AnswerOf(tasks[i].pages, tasks[i].keys, reported)]
       \/ /\ tasks' = [tasks EXCEPT ![i].st = "raised"]
          /\ UNCHANGED answers
    /\ UNCHANGED <<pc, arg, ret, extracted, threads>>
    /\ UNCHANGED runVars

(***************************************************************************)
(* _collect_schema_values after a gather, and the rest of extract_values    *)
(***************************************************************************)
\* The collection returned values: extract_values assembles the result
Return(values, extracted_values) ==
    /\ pc' = "done"
    /\ ret' = <<[ok |-> TRUE, values |-> values,
                 result |-> _build_result(arg.schema, values, arg.null_sentinel)]>>
    /\ extracted' = extracted_values
    /\ UNCHANGED <<tasks, done_order>>

\* The gather of the next round of chunk calls starts
StartBatches(phase, keys, extracted_values) ==
    /\ pc' = phase
    /\ tasks' = BatchTasks(arg.pages, keys, arg.chunk_pages)
    /\ done_order' = <<>>
    /\ extracted' = extracted_values
    /\ UNCHANGED ret

\* extracted_values = paged_values + non_paged_values, then the fallback decision
AfterNonPaged(extracted_values) ==
    LET missing_paged_keys ==
            _missing_paged_keys(extracted_values, KeysByPage, arg.backend_type, arg.null_sentinel)
    IN  IF missing_paged_keys = <<>>
        THEN Return(extracted_values, extracted_values)
        ELSE StartBatches("fallback", missing_paged_keys, extracted_values)

\* Variant: the fallback round is run a second time when it left keys without
\* a usable value
AfterFallback_second_round(values, extracted_values) ==
    LET missing_paged_keys ==
            _missing_paged_keys(values, KeysByPage, arg.backend_type, arg.null_sentinel)
        fallback_calls == SelectSeq(calls, LAMBDA call : call.phase = "fallback")
    IN  IF missing_paged_keys # <<>>
           /\ Len(fallback_calls) <= Len(PageBatches(arg.pages, arg.chunk_pages))
        THEN StartBatches("fallback", missing_paged_keys, extracted_values)
        ELSE Return(values, extracted_values)

\* The fallback round is over: its values are added and the collection
\* returns, whatever the fallback answered
AfterFallback(values, extracted_values) == Return(values, extracted_values)

\* await asyncio.gather(...) returns: every task of the round has its result
GatherDone ==
    /\ pc \in GatherPhases
    /\ Finished(tasks)
    /\ LET results == GatherResults(tasks, done_order)
           by_key == ReconcileInto(<<>>, Concat(results))
           unresolved_non_paged == _unresolved_sparse_keys(arg.schema, arg.page_map)
       IN  CASE pc = "schema_wide" -> Return(by_key, extracted)
             [] pc = "paged" ->
                    IF unresolved_non_paged # <<>>
                    THEN StartBatches("non_paged", unresolved_non_paged, Concat(results))
                    ELSE AfterNonPaged(Concat(results))
             [] pc = "non_paged" -> AfterNonPaged(extracted \o by_key)
             [] pc = "fallback" -> AfterFallback(extracted \o by_key, extracted)
    /\ UNCHANGED <<arg, answers, calls, threads>>
    /\ UNCHANGED runVars

\* await asyncio.gather(...) raises the exception of a task: the coroutine
\* ends, the event loop cancels the tasks still pending, and run_async raises.
\* The tasks of a backend without aextract_values have all run by then.
GatherRaise ==
    /\ pc \in GatherPhases
    /\ \E i \in 1..Len(tasks) : tasks[i].st = "raised"
    /\ arg.has_async \/ \A i \in 1..Len(tasks) : tasks[i].st # "created"
    /\ pc' = "failed"
    /\ tasks' = [i \in 1..Len(tasks) |->
                    IF tasks[i].st \in {"created", "inflight"}
                    THEN [tasks[i] EXCEPT !.st = "cancelled"] ELSE tasks[i]]
    /\ ret' = <<[ok |-> FALSE, error |-> RunAsyncError(arg.loop_running, "BackendError")]>>
    /\ UNCHANGED <<arg, done_order, answers, extracted, calls, threads>>
    /\ UNCHANGED runVars

Next ==
    \/ OnePassInferSchema
    \/ ExtractValues
    \/ \E i \in 1..Len(tasks) : Acquire(i)
    \/ \E i \in 1..Len(tasks) : Complete(i)
    \/ \E i \in 1..Len(tasks) : Raise(i)
    \/ \E i \in 1..Len(tasks) : SyncCall(i)
    \/ GatherDone
    \/ GatherRaise

Spec == Init /\ [][Next]_vars

\* The steps the event loop schedules before a gather is over: the start of
\* the collection, a task entering the semaphore, a backend call ending by
\* returning or raising, and the gather raising
Scheduled ==
    \/ OnePassInferSchema
    \/ ExtractValues
    \/ \E i \in 1..Len(tasks) : Acquire(i) \/ Complete(i) \/ Raise(i) \/ SyncCall(i)
    \/ GatherRaise

\* GatherDone can be taken exactly in these states, and it always changes pc
\* or empties done_order
GatherReady == pc \in GatherPhases /\ Finished(tasks)

\* The event loop runs every task that can run, and every backend call ends
\* by returning or raising: a step that can be taken is taken. The last two
\* lines are WF_vars(GatherDone) with ENABLED <<GatherDone>>_vars written as
\* GatherReady.
SpecScheduled ==
    /\ Init
    /\ [][Next]_vars
    /\ WF_vars(Scheduled)
    /\ \/ []<>(~GatherReady)
       \/ []<><<GatherDone>>_vars

(***************************************************************************)
(* The collector on schemas without page metadata: the schema-wide path     *)
(***************************************************************************)
MaxWidePages == 3    \* rendered pages of a schema-wide collection

\* Schemas of at most MaxFields fields, none with a page; a schema may have
\* no field at all
UnroutedSchemas ==
    {[i \in 1..n |-> [key |-> FieldKeys[i], page |-> 0,
                      kind |-> "unknown", semantic_type |-> None]] : n \in 0..MaxFields}

\* The rendered pages 1..n
WidePageLists == {[i \in 1..n |-> i] : n \in 1..MaxWidePages}

InitSchemaWide ==
    /\ arg \in [schema : UnroutedSchemas,
                caller : {"extract_one_pass", "_extract_with_schema"},
                pages : WidePageLists,
                chunk_pages : 0..MaxWidePages,
                concurrency_declared : BOOLEAN,
                openai_concurrency : 0..MaxConcurrency,
                has_async : BOOLEAN,
                use_page_groups : BOOLEAN,
                loop_running : {FALSE},
                backend_type : {"multimodal"},
                null_sentinel : {NULL},
                page_map : {<<>>}]
    \* the asynchronous backend declares its concurrency, the other has none
    /\ arg.concurrency_declared = arg.has_async
    /\ arg.concurrency_declared \/ arg.openai_concurrency = 0
    /\ arg.use_page_groups = UsePageGroups(arg.caller)
    /\ pc = IF arg.caller = "extract_one_pass" THEN "start" ELSE "idle"
    /\ ret = <<>>
    /\ CollectIdle
    /\ NoRun

SpecSchemaWide == InitSchemaWide /\ [][Next]_vars

(***************************************************************************)
(* The collector with a page map, either backend and either sentinel        *)
(***************************************************************************)
\* The schema_page_map build_schema_page_mapping gives a schema: empty for a
\* schema without pages, else pages 1..max_schema_page sent to themselves or
\* to non-blank pages of the document, in ascending order
SchemaPageMaps(schema) ==
    LET schema_pages == {schema[i].page : i \in 1..Len(schema)} \ {0}
        max_schema_page == CHOOSE page \in schema_pages : \A other \in schema_pages : other <= page
    IN  IF schema_pages = {} THEN {<<>>}
        ELSE {page_map \in [1..max_schema_page -> 1..(MaxPage + 1)] :
                 \A n \in 1..(max_schema_page - 1) : page_map[n] < page_map[n + 1]}

InitPageGroups ==
    /\ arg \in [schema : CollectSchemas,
                caller : {"extract_one_pass", "_extract_with_schema"},
                pages : PageLists,
                chunk_pages : {MaxChunk},
                concurrency_declared : BOOLEAN,
                openai_concurrency : 0..MaxConcurrency,
                has_async : BOOLEAN,
                use_page_groups : BOOLEAN,
                loop_running : {FALSE},
                backend_type : {"multimodal", "ocr"},
                null_sentinel : Sentinels,
                page_map : UNION {SchemaPageMaps(schema) : schema \in CollectSchemas}]
    /\ arg.page_map \in SchemaPageMaps(arg.schema)
    \* the asynchronous backend declares its concurrency, the other has none
    /\ arg.concurrency_declared = arg.has_async
    /\ arg.concurrency_declared \/ arg.openai_concurrency = 0
    /\ arg.use_page_groups = UsePageGroups(arg.caller)
    /\ pc = IF arg.caller = "extract_one_pass" THEN "start" ELSE "idle"
    /\ ret = <<>>
    /\ CollectIdle
    /\ NoRun

SpecPageGroups == InitPageGroups /\ [][Next]_vars

(***************************************************************************)
(* extractor.py: run_extract and the pass modes                             *)
(***************************************************************************)
\* A schema is known here by its id and fingerprint; id "" stands for None.
NoSchema == [id |-> "", fingerprint |-> ""]

\* The schema stored in the file request.schema_path names
PathSchema == [id |-> "p0", fingerprint |-> "f0"]

\* The schema infer_schema returns: a new uuid4 id (the one this invocation
\* draws), the document's fingerprint
InferredSchema(request) == [id |-> request.uuid, fingerprint |-> request.fingerprint]

StoredIds == <<"s1", "s2", "s3", "s4">>

Fingerprints == {"f1", "f2"}

\* The store's files in list_schemas order; every stored schema was saved by
\* _run_two_pass after infer_schema, with a uuid4 id of its own
Stores ==
    UNION {{[i \in 1..n |-> [id |-> StoredIds[ids[i]], fingerprint |-> fp[i]]] :
              ids \in {f \in [1..n -> 1..MaxStored] : \A i, j \in 1..n : f[i] = f[j] => i = j},
              fp \in [1..n -> Fingerprints]} : n \in 0..MaxStored}

\* Variant: only the first file of the listing is looked at
SchemaStore_match_schema_first_file(schemas, fingerprint) ==
    IF schemas # <<>> /\ schemas[1].fingerprint = fingerprint
    THEN [matched |-> TRUE, schema_id |-> schemas[1].id]
    ELSE [matched |-> FALSE, schema_id |-> ""]

\* SchemaStore.match_schema: the first stored schema with the fingerprint
SchemaStore_match_schema(schemas, fingerprint) ==
    LET hits == {i \in 1..Len(schemas) : schemas[i].fingerprint = fingerprint}
    IN  IF hits = {} THEN [matched |-> FALSE, schema_id |-> ""]
        ELSE [matched |-> TRUE,
              schema_id |-> schemas[CHOOSE i \in hits : \A j \in hits : i <= j].id]

\* Variant: an id no stored schema has falls back on the first stored schema
_extract_for_schema_id_or_first(schemas, schema_id) ==
    LET hits == {i \in 1..Len(schemas) : schemas[i].id = schema_id}
    IN  IF hits = {} THEN (IF schemas = <<>> THEN <<>> ELSE <<schemas[1]>>)
        ELSE <<schemas[CHOOSE i \in hits : \A j \in hits : i <= j]>>

\* The scan of _extract_for_schema_id: <<>> for None, else the first stored
\* schema with the id, which extract_values is then run with
_extract_for_schema_id(schemas, schema_id) ==
    LET hits == {i \in 1..Len(schemas) : schemas[i].id = schema_id}
    IN  IF hits = {} THEN <<>>
        ELSE <<schemas[CHOOSE i \in hits : \A j \in hits : i <= j]>>

\* Variant: the pass mode is looked at before the schema path
run_extract_branch_mode_first(request) ==
    IF request.mode = "one_pass" THEN "one_pass"
    ELSE IF request.mode = "two_pass" THEN "two_pass"
    ELSE IF request.schema_path THEN "schema_path"
    ELSE "one_schema_pass"

\* The branch of run_extract a request takes
run_extract_branch(request) ==
    IF request.schema_path THEN "schema_path"
    ELSE IF request.mode = "one_pass" THEN "one_pass"
    ELSE IF request.mode = "one_schema_pass" THEN "one_schema_pass"
    ELSE "two_pass"

\* Variant: the store is searched only when match_schema is asked for
TwoPassMatches_flag_only(request) == request.match_schema

\* _run_two_pass: if request.match_schema or request.use_cache
TwoPassMatches(request) == request.match_schema \/ request.use_cache

Requests ==
    [schema_path : BOOLEAN,
     mode : {"one_pass", "one_schema_pass", "two_pass"},
     schema_id : {"", "s1", "s9"},
     use_cache : BOOLEAN,
     match_schema : BOOLEAN,
     fingerprint : {"f1"},
     store : Stores,
     uuid : {"u1"}]

Event(op, schema_id, use_page_groups) ==
    [op |-> op, schema_id |-> schema_id, use_page_groups |-> use_page_groups]

\* What run_extract holds: the schema to extract with, the cache_hit flag, the
\* use_page_groups argument of extract_values, and the error raised if any
Frame(schema, cache_hit, use_page_groups, error) ==
    [schema |-> schema, cache_hit |-> cache_hit,
     use_page_groups |-> use_page_groups, error |-> error]

InitRun ==
    /\ pc = "run"
    /\ arg \in Requests
    /\ ret = <<>>
    /\ CollectIdle
    /\ store = arg.store
    /\ trace = <<>>

\* if request.schema_path: store.load, then _extract_with_schema
RunWithSchemaPath ==
    /\ pc = "run"
    /\ run_extract_branch(arg) = "schema_path"
    /\ trace' = Append(trace, Event("load", PathSchema.id, FALSE))
    /\ ret' = <<Frame(PathSchema, FALSE, TRUE, None)>>
    /\ pc' = "extract_values"
    /\ UNCHANGED <<arg, collectVars, store>>

\* PassMode.ONE_PASS: extract_one_pass
RunOnePass ==
    /\ pc = "run"
    /\ run_extract_branch(arg) = "one_pass"
    /\ ret' = <<Frame(NoSchema, FALSE, FALSE, None)>>
    /\ pc' = "infer_schema"
    /\ UNCHANGED <<arg, collectVars, store, trace>>

\* PassMode.ONE_SCHEMA_PASS: _run_one_schema_pass
RunOneSchemaPass ==
    /\ pc = "run"
    /\ run_extract_branch(arg) = "one_schema_pass"
    /\ IF arg.schema_id = ""
       THEN /\ ret' = <<Frame(NoSchema, FALSE, TRUE, "ExtractionError")>>
            /\ pc' = "raised"
            /\ UNCHANGED trace
       ELSE LET found == _extract_for_schema_id(store, arg.schema_id)
            IN  /\ trace' = Append(trace, Event("list_schemas", arg.schema_id, FALSE))
                /\ IF found = <<>>
                   THEN /\ ret' = <<Frame(NoSchema, FALSE, TRUE, "ExtractionError")>>
                        /\ pc' = "raised"
                   ELSE /\ ret' = <<Frame(found[1], FALSE, TRUE, None)>>
                        /\ pc' = "extract_values"
    /\ UNCHANGED <<arg, collectVars, store>>

\* PassMode.TWO_PASS: _run_two_pass up to the cached extraction or infer_schema
RunTwoPass ==
    /\ pc = "run"
    /\ run_extract_branch(arg) = "two_pass"
    /\ IF TwoPassMatches(arg)
       THEN LET matched == SchemaStore_match_schema(store, arg.fingerprint)
                cached == _extract_for_schema_id(store, matched.schema_id)
            IN  /\ trace' = Append(trace, Event("match_schema", matched.schema_id, FALSE))
                /\ IF matched.matched /\ matched.schema_id # "" /\ cached # <<>>
                   THEN /\ ret' = <<Frame(cached[1], TRUE, TRUE, None)>>
                        /\ pc' = "extract_values"
                   ELSE /\ ret' = <<Frame(NoSchema, FALSE, TRUE, None)>>
                        /\ pc' = "infer_schema"
       ELSE /\ ret' = <<Frame(NoSchema, FALSE, TRUE, None)>>
            /\ pc' = "infer_schema"
            /\ UNCHANGED trace
    /\ UNCHANGED <<arg, collectVars, store>>

\* infer_schema: one backend call, which returns a schema or raises
InferSchema ==
    /\ pc = "infer_schema"
    /\ trace' = Append(trace, Event("infer_schema", "", FALSE))
    /\ \/ /\ ret' = <<[ret[1] EXCEPT !.schema = InferredSchema(arg)]>>
          /\ pc' = IF run_extract_branch(arg) = "two_pass" /\ arg.use_cache
                   THEN "save" ELSE "extract_values"
       \/ /\ ret' = <<[ret[1] EXCEPT !.error = "BackendError"]>>
          /\ pc' = "raised"
    /\ UNCHANGED <<arg, collectVars, store>>

\* store.save(schema): a new file, at its place in the sorted listing
SaveSchema ==
    /\ pc = "save"
    /\ \E at \in 0..Len(store) :
          store' = SubSeq(store, 1, at) \o <<ret[1].schema>> \o SubSeq(store, at + 1, Len(store))
    /\ trace' = Append(trace, Event("save", ret[1].schema.id, FALSE))
    /\ pc' = "extract_values"
    /\ UNCHANGED <<arg, ret, collectVars>>

\* extract_values(schema, request, settings, use_page_groups=...), which
\* returns a result or raises the backend's error; run_extract then tags the
\* result's metadata
RunExtractValues ==
    /\ pc = "extract_values"
    /\ trace' = Append(trace, Event("extract_values", ret[1].schema.id, ret[1].use_page_groups))
    /\ \/ /\ pc' = "returned"
          /\ UNCHANGED ret
       \/ /\ ret' = <<[ret[1] EXCEPT !.error = "BackendError"]>>
          /\ pc' = "raised"
    /\ UNCHANGED <<arg, collectVars, store>>

NextRun ==
    \/ RunWithSchemaPath
    \/ RunOnePass
    \/ RunOneSchemaPass
    \/ RunTwoPass
    \/ InferSchema
    \/ SaveSchema
    \/ RunExtractValues

SpecRun == InitRun /\ [][NextRun]_vars

(***************************************************************************)
(* run_extract invoked again and again on one schema store                  *)
(***************************************************************************)
MaxRuns == 3         \* run_extract invocations on the store

\* str(uuid4()) of the successive invocations: never the same twice
Uuids == <<"u1", "u2", "u3", "u4", "u5">>

\* The invocations begun so far, the running one included
RunsBegun == 1 + Cardinality({n \in 1..Len(trace) : trace[n].op = "run_extract"})

\* The requests of the invocation number run, on a store holding schemas
RunRequests(schemas, run) ==
    [schema_path : BOOLEAN,
     mode : {"one_pass", "one_schema_pass", "two_pass"},
     schema_id : {"", "u1", "s9"},
     use_cache : BOOLEAN,
     match_schema : BOOLEAN,
     fingerprint : Fingerprints,
     store : {schemas},
     uuid : {Uuids[run]}]

\* The store directory is empty before the first invocation
InitRuns ==
    /\ pc = "run"
    /\ arg \in RunRequests(<<>>, 1)
    /\ ret = <<>>
    /\ CollectIdle
    /\ store = <<>>
    /\ trace = <<>>

\* The invocation is over, by a result or by an error: run_extract is called
\* once more, on the store as it is now. Of what the earlier invocations did
\* the trace keeps their saves.
RunExtractAgain ==
    /\ pc \in {"returned", "raised"}
    /\ RunsBegun < MaxRuns
    /\ arg' \in RunRequests(store, RunsBegun + 1)
    /\ trace' = Append(SelectSeq(trace, LAMBDA e : e.op \in {"save", "run_extract"}),
                       Event("run_extract", "", FALSE))
    /\ pc' = "run"
    /\ ret' = <<>>
    /\ UNCHANGED <<collectVars, store>>

NextRuns ==
    \/ NextRun
    \/ RunExtractAgain

SpecRuns == InitRuns /\ [][NextRuns]_vars

(***************************************************************************)
(* Properties                                                               *)
(***************************************************************************)
\* A value that is empty once trimmed
TrimmedEmpty(value) == \A i \in 1..Len(value) : value[i] = " "

SchemaKeys(schema) == {schema[i].key : i \in 1..Len(schema)}

\* C7: the assembled result has one FieldValue per schema field, in schema
\* order; schema_fields_count is the number of schema fields; flat has exactly
\* the schema keys, each mapped to the value of its field's entry, so that
\* observations for other keys never appear.
C7_OnePerSchemaField ==
    pc = "assembled" =>
        LET result == ret[1]
            schema == arg.schema
        IN  /\ Len(result.fields) = Len(schema)
            /\ \A i \in 1..Len(schema) : result.fields[i].key = schema[i].key
            /\ result.schema_fields_count = Len(schema)
            /\ DOMAIN result.flat = SchemaKeys(schema)
            /\ \A i \in 1..Len(schema) : result.flat[schema[i].key] = result.fields[i].value

C7_Witness ==
    /\ pc = "assembled"
    /\ Len(arg.schema) = 2
    /\ \E i \in 1..Len(arg.values) :
          arg.values[i].key = "z" /\ ~TrimmedEmpty(arg.values[i].value)
    /\ \E i \in 1..Len(arg.values) : arg.values[i].key = "a"
    /\ Len(ret[1].fields) = 2

\* Schema fields for which no observation with a non-blank value was collected
Unfilled(schema, values) ==
    {i \in 1..Len(schema) :
        \A j \in 1..Len(values) :
            values[j].key = schema[i].key => TrimmedEmpty(values[j].value)}

\* C8: every schema field without a non-blank observation, including a field
\* the backend never returned, gets the configured null sentinel as its field
\* value and as its flat entry, in a result that is produced all the same.
C8_MissingIsSentinel ==
    pc = "assembled" =>
        /\ Len(ret) = 1
        /\ \A i \in Unfilled(arg.schema, arg.values) :
              /\ ret[1].fields[i].value = arg.null_sentinel
              /\ ret[1].flat[arg.schema[i].key] = arg.null_sentinel

C8_Witness ==
    /\ pc = "assembled"
    /\ arg.null_sentinel # NULL
    /\ Len(arg.schema) = 2
    /\ Unfilled(arg.schema, arg.values) = {1, 2}
    /\ \E j \in 1..Len(arg.values) : arg.values[j].key = arg.schema[1].key
    /\ \A j \in 1..Len(arg.values) : arg.values[j].key # arg.schema[2].key
    /\ ret[1].flat[arg.schema[2].key] = arg.null_sentinel

RankOrder == <<"unknown", "low", "medium", "high">>

RankIndex(confidence) == CHOOSE i \in 1..Len(RankOrder) : RankOrder[i] = confidence

C9_CandidateWins ==
    \/ arg.current = Absent
    \/ /\ arg.current # Absent
       /\ \/ ~TrimmedEmpty(arg.candidate.value) /\ TrimmedEmpty(arg.current.value)
          \/ /\ TrimmedEmpty(arg.candidate.value) = TrimmedEmpty(arg.current.value)
             /\ RankIndex(arg.candidate.confidence) > RankIndex(arg.current.confidence)

\* C9: select_better returns the candidate exactly when there is no current
\* value, or the candidate is non-blank and the current blank, or both have
\* the same blankness and the candidate's rank is strictly higher; otherwise,
\* equal ranks included, it returns the current value.
C9_SelectBetter ==
    pc = "selected" =>
        ret[1] = IF C9_CandidateWins THEN arg.candidate ELSE arg.current

C9_Witness ==
    /\ pc = "selected"
    /\ arg.current # Absent
    /\ arg.current.confidence = arg.candidate.confidence
    /\ ~TrimmedEmpty(arg.current.value) /\ ~TrimmedEmpty(arg.candidate.value)
    /\ arg.current.value # arg.candidate.value
    /\ ret[1] = arg.current

\* C10: normalizing a value a second time, with the same field and the same
\* null sentinel, gives what the first normalization gave.
C10_Idempotent ==
    pc = "normalized" => ret[2] = ret[1]

(***************************************************************************)
(* Properties of the collector                                              *)
(***************************************************************************)
CallsOf(phase) == SelectSeq(calls, LAMBDA call : call.phase = phase)

\* A value that is neither blank nor the run's null sentinel
IsUsable(value) == ~TrimmedEmpty(value) /\ Strip(value) # arg.null_sentinel

\* The values the fallback round added to those of the page-scoped round
FallbackValues == SubSeq(ret[1].values, Len(extracted) + 1, Len(ret[1].values))

FieldOf(key) == arg.schema[CHOOSE i \in 1..Len(arg.schema) : arg.schema[i].key = key]

\* Keys the page-scoped round reported as the null sentinel
SentinelKeys ==
    {extracted[i].key : i \in {j \in 1..Len(extracted) :
                                  Strip(extracted[j].value) = arg.null_sentinel}}

\* C1: when the page-scoped extraction of a routed key returned the null
\* sentinel and the fallback over all pages returned a non-blank, non-sentinel
\* value for it, the result's flat value for the key is the fallback's value,
\* normalized, whatever the two confidences.
C1_FallbackValueWins ==
    (pc = "done" /\ CallsOf("fallback") # <<>>) =>
        \A n \in 1..Len(FallbackValues) :
            LET value == FallbackValues[n]
            IN  (value.key \in SentinelKeys /\ IsUsable(value.value)) =>
                    ret[1].result.flat[value.key] =
                        normalize_typed_value(value.value, FieldOf(value.key), arg.null_sentinel)

RoutedKeys == UNION {{KeysByPage[p][i] : i \in 1..Len(KeysByPage[p])} : p \in DOMAIN KeysByPage}

\* Routed keys for which the page-scoped round brought no usable value
KeysWithoutUsableValue ==
    RoutedKeys \ {extracted[i].key : i \in {j \in 1..Len(extracted) : IsUsable(extracted[j].value)}}

\* A routed key came back blank or as the null sentinel from its page-scoped call
CameBackBlankOrSentinel ==
    \E i \in 1..Len(extracted) :
        extracted[i].key \in RoutedKeys /\ ~IsUsable(extracted[i].value)

ChunkSize == IF arg.chunk_pages > 1 THEN arg.chunk_pages ELSE 1

ClaimedLimit ==
    IF ~arg.concurrency_declared THEN 8
    ELSE IF arg.openai_concurrency > 1 THEN arg.openai_concurrency ELSE 1

\* C3: at every moment of a collection the backend calls in flight number at
\* most max(openai_concurrency, 1), or at most 8 when the backend declares no
\* concurrency.
C3_InFlightBounded ==
    Cardinality({i \in 1..Len(tasks) : tasks[i].st = "inflight"}) <= ClaimedLimit

C3_Witness ==
    /\ arg.has_async
    /\ Cardinality({i \in 1..Len(tasks) : tasks[i].st = "inflight"}) = ClaimedLimit
    /\ \E i \in 1..Len(tasks) : tasks[i].st = "created"
    /\ pc = "fallback"

\* What the backend answers to a call, read off the answers it has given
RecordedAnswer(pages, keys) ==
    AnswerOf(pages, keys,
             [n \in 1..Len(keys) |->
                 IF <<pages, keys[n]>> \in DOMAIN answers THEN answers[<<pages, keys[n]>>]
                 ELSE Unreported])

\* The chunk calls for keys made one after the other, in issuance order
SequentialBatches(keys) ==
    IF keys = <<>> THEN <<>>
    ELSE LET page_batches == PageBatches(arg.pages, arg.chunk_pages)
         IN  ReconcileInto(<<>>, Concat([n \in 1..Len(page_batches) |->
                                            RecordedAnswer(page_batches[n], keys)]))

\* The page-scoped calls made one after the other, in ascending page order
SequentialPaged ==
    LET numbers == SelectSeq(SortedSeq(DOMAIN KeysByPage), LAMBDA p : InSeq(p, arg.pages))
    IN  Concat([n \in 1..Len(numbers) |-> RecordedAnswer(<<numbers[n]>>, KeysByPage[numbers[n]])])

\* The values a collection making its calls one at a time, in issuance order,
\* collects from the same backend answers
SequentialValues ==
    IF DOMAIN KeysByPage = {} \/ ~arg.use_page_groups
    THEN SequentialBatches(KeysAt(arg.schema, [i \in 1..Len(arg.schema) |-> i]))
    ELSE LET first == SequentialPaged
                      \o SequentialBatches(_unresolved_sparse_keys(arg.schema, arg.page_map))
             usable == {first[i].key : i \in {j \in 1..Len(first) : IsUsable(first[j].value)}}
         IN  first \o SequentialBatches(SortedKeys(RoutedKeys \ usable))

\* C4: whatever the completion order of the concurrent calls, the collected
\* values and the final result are those of the calls taken in issuance order.
C4_CompletionOrderIrrelevant ==
    pc = "done" =>
        /\ ret[1].values = SequentialValues
        /\ ret[1].result = _build_result(arg.schema, SequentialValues, arg.null_sentinel)

\* Two chunk calls completed in the reverse of their issuance order, with
\* different non-blank values of equal confidence for one key
C4_Witness ==
    /\ pc = "done"
    /\ Len(tasks) = 2
    /\ done_order = <<2, 1>>
    /\ \E i \in 1..Len(tasks[1].result), j \in 1..Len(tasks[2].result) :
          /\ tasks[1].result[i].key = tasks[2].result[j].key
          /\ tasks[1].result[i].confidence = tasks[2].result[j].confidence
          /\ tasks[1].result[i].value # tasks[2].result[j].value
          /\ IsUsable(tasks[1].result[i].value) /\ IsUsable(tasks[2].result[j].value)
          /\ ret[1].result.flat[tasks[1].result[i].key] = tasks[1].result[i].value

\* C5: when a backend call raised, extract_values returns no result and its
\* caller gets the backend error, with or without a running event loop.
C5_BackendErrorReachesCaller ==
    (pc \in {"done", "failed"} /\ \E i \in 1..Len(tasks) : tasks[i].st = "raised") =>
        /\ pc = "failed"
        /\ ~ret[1].ok
        /\ ret[1].error = "BackendError"

\* C6: run_async runs the coroutine on a background thread of its own when no
\* event loop is running, and directly, without a second thread, when called
\* from inside a running event loop; it returns the coroutine's result.
C6_ThreadOnlyWithoutLoop ==
    pc \notin {"start", "idle"} => threads = (IF arg.loop_running THEN 0 ELSE 1)

(***************************************************************************)
(* Properties of the normalizer's dispatch                                  *)
(***************************************************************************)
\* C11: when semantic_type is set, the normalized value is the one the
\* transformation of semantic_type gives, whatever kind names; kind is
\* consulted only when semantic_type is absent.
C11_SemanticTypeDecides ==
    (pc \in {"renormalize", "normalized"} /\ arg.schema_field.semantic_type # None) =>
        ret[1] = normalize_typed_value(
                     arg.value,
                     [kind |-> "unknown", semantic_type |-> arg.schema_field.semantic_type],
                     arg.null_sentinel)

\* C12: a phone number written with a leading "00" and the same number
\* written with a leading "+" normalize to the same string.
C12_DoubleZeroIsPlus ==
    pc = "phoned" => ret[1] = ret[2]

(***************************************************************************)
(* Properties of the page router                                            *)
(***************************************************************************)
WithPage(schema) == {i \in 1..Len(schema) : schema[i].page # 0}

PhysicalPage(page) == IF page \in DOMAIN arg.page_map THEN arg.page_map[page] ELSE page

Distance(i, j) == IF i < j THEN j - i ELSE i - j

\* The page a field belongs to: its own, or that of the closest field with a
\* page, the earlier of two equally close ones
ExpectedPage(schema, i) ==
    IF schema[i].page # 0 THEN PhysicalPage(schema[i].page)
    ELSE LET a == CHOOSE a \in WithPage(schema) :
                      \A b \in WithPage(schema) \ {a} :
                          \/ Distance(a, i) < Distance(b, i)
                          \/ Distance(a, i) = Distance(b, i) /\ a < b
         IN  PhysicalPage(schema[a].page)

\* C13: every field with a page is routed to that page, through the page map
\* when it has an entry; when some field has a page, every field without one
\* is routed to the page of the field with a page closest in list position,
\* the earlier one when two are equally close, and nothing is unresolved; when
\* no field has a page the routing table is empty and every key is unresolved.
C13_NearestAnchorRouting ==
    pc = "routed" =>
        LET schema == arg.schema
            table == ret[1]
            unresolved == ret[2]
        IN  IF WithPage(schema) = {}
            THEN /\ DOMAIN table = {}
                 /\ unresolved = [i \in 1..Len(schema) |-> schema[i].key]
            ELSE /\ unresolved = <<>>
                 /\ DOMAIN table = {ExpectedPage(schema, i) : i \in 1..Len(schema)}
                 /\ \A i \in 1..Len(schema) : \A page \in DOMAIN table :
                        Cardinality({n \in 1..Len(table[page]) : table[page][n] = schema[i].key})
                            = (IF page = ExpectedPage(schema, i) THEN 1 ELSE 0)

C13_Witness ==
    /\ pc = "routed"
    /\ Len(arg.schema) = 3
    /\ arg.schema[1].page = 1 /\ arg.schema[2].page = 0 /\ arg.schema[3].page = 2
    /\ DOMAIN arg.page_map = {1} /\ arg.page_map[1] = 3
    /\ DOMAIN ret[1] = {2, 3}
    /\ ret[1][3] = <<"a", "b">>

(***************************************************************************)
(* Properties of the schema page mapping                                    *)
(***************************************************************************)
\* The highest page number a schema field carries, 0 when none carries one
TopSchemaPage(schema) ==
    LET numbers == {schema[i].page : i \in 1..Len(schema)}
    IN  CHOOSE top \in numbers \cup {0} : \A n \in numbers : n <= top

\* An analysis exists, at least one page is non-blank, fewer pages are
\* non-blank than selected, and the schema's pages fit in the non-blank ones
UsesNonBlankPages ==
    /\ arg.analysis.present
    /\ Len(arg.analysis.nonblank) >= 1
    /\ Len(arg.analysis.nonblank) < Len(arg.analysis.selected)
    /\ TopSchemaPage(arg.schema) <= Len(arg.analysis.nonblank)

\* C14: build_schema_page_mapping maps logical page N to the N-th non-blank
\* page exactly when an analysis exists, fewer pages are non-blank than
\* selected, at least one is non-blank, and the highest schema page is at most
\* the number of non-blank pages; otherwise, a missing analysis included, it
\* is the identity on 1..highest schema page.
C14_PageMapping ==
    pc = "page_mapped" =>
        ret[1] = [n \in 1..TopSchemaPage(arg.schema) |->
                     IF UsesNonBlankPages THEN arg.analysis.nonblank[n] ELSE n]

C14_Witness ==
    /\ pc = "page_mapped"
    /\ UsesNonBlankPages
    /\ arg.analysis.selected = <<1, 2, 3>>
    /\ arg.analysis.nonblank = <<1, 3>>
    /\ ret[1] = <<1, 3>>

(***************************************************************************)
(* Properties of pricing aggregation                                        *)
(***************************************************************************)
RECURSIVE SumAt(_, _)
SumAt(values, indexes) ==
    IF indexes = {} THEN 0
    ELSE LET i == CHOOSE i \in indexes : TRUE
         IN  values[i][1] + SumAt(values, indexes \ {i})

\* Unknown when no call knows the value, else the sum over the calls that do
KnownSum(values) ==
    LET known == {i \in 1..Len(values) : values[i] # <<>>}
    IN  IF known = {} THEN <<>> ELSE <<SumAt(values, known)>>

\* C15: merge_pricing_calls returns None for an empty list; otherwise each of
\* input_tokens, output_tokens and total_cost_usd is unknown when every call's
\* value is unknown, and the sum of the known values when one at least is
\* known.
C15_MergeSumsKnownValues ==
    pc = "merged" =>
        IF arg.calls = <<>> THEN ret[1].value = <<>>
        ELSE /\ Len(ret[1].value) = 1
             /\ ret[1].value[1].input_tokens = KnownSum([i \in 1..Len(arg.calls) |-> arg.calls[i].input_tokens])
             /\ ret[1].value[1].output_tokens = KnownSum([i \in 1..Len(arg.calls) |-> arg.calls[i].output_tokens])
             /\ ret[1].value[1].total_cost_usd = KnownSum([i \in 1..Len(arg.calls) |-> arg.calls[i].total_cost_usd])

C15_Witness ==
    /\ pc = "merged"
    /\ Len(arg.calls) = 2
    /\ arg.calls[1].input_tokens = <<>> /\ arg.calls[2].input_tokens = <<>>
    /\ arg.calls[1].output_tokens = <<>> /\ arg.calls[2].output_tokens # <<>>
    /\ arg.calls[1].total_cost_usd # <<>> /\ arg.calls[2].total_cost_usd # <<>>
    /\ ret[1].value[1].input_tokens = <<>>
    /\ ret[1].value[1].output_tokens = arg.calls[2].output_tokens
    /\ ret[1].value[1].total_cost_usd = <<2>>

\* The calls the operation combined differ in provider or model
CombinedMismatch ==
    LET combined == IF pc = "added" THEN {1, 2} ELSE 1..Len(arg.calls)
    IN  \E i, j \in combined :
            \/ arg.calls[i].provider # arg.calls[j].provider
            \/ arg.calls[i].model # arg.calls[j].model

\* C16: combining pricing records of different provider or model, by
\* PricingCall addition or by merge_pricing_calls, fails with a model mismatch
\* error and yields no merged record.
C16_MismatchIsFatal ==
    (pc \in {"merged", "added"} /\ CombinedMismatch) =>
        /\ ret[1].error = "ModelMismatchError"
        /\ ret[1].value = <<>>

(***************************************************************************)
(* Properties of run_extract                                                *)
(***************************************************************************)
Did(op) == \E n \in 1..Len(trace) : trace[n].op = op

StoredWithFingerprint == {i \in 1..Len(arg.store) : arg.store[i].fingerprint = arg.fingerprint}

\* C17: a request with a schema path, whatever its pass mode, loads that
\* schema and extracts with it; no schema inference call, no fingerprint match
\* and no store save is made, and the result is tagged cache_hit = false.
C17_SchemaPathBypasses ==
    arg.schema_path =>
        /\ ~Did("infer_schema") /\ ~Did("match_schema") /\ ~Did("save")
        /\ store = arg.store
        /\ pc = "returned" =>
              /\ trace = <<Event("load", PathSchema.id, FALSE),
                           Event("extract_values", PathSchema.id, TRUE)>>
              /\ ret[1].schema = PathSchema
              /\ ~ret[1].cache_hit

C17_Witness ==
    /\ pc = "returned"
    /\ arg.schema_path
    /\ arg.mode = "two_pass"
    /\ arg.use_cache /\ arg.match_schema
    /\ StoredWithFingerprint # {}
    /\ ret[1].schema = PathSchema

\* C18: in TWO_PASS mode, when use_cache or match_schema is set and the store
\* holds a schema with the document's fingerprint, extraction uses that stored
\* schema, nothing is inferred and cache_hit is true; otherwise a schema is
\* inferred, saved to the store exactly when use_cache is set, and used for
\* an extraction with page groups enabled, and cache_hit is false.
C18_TwoPassCache ==
    (~arg.schema_path /\ arg.mode = "two_pass" /\ pc = "returned") =>
        IF (arg.use_cache \/ arg.match_schema) /\ StoredWithFingerprint # {}
        THEN /\ \E i \in StoredWithFingerprint : ret[1].schema = arg.store[i]
             /\ ~Did("infer_schema")
             /\ ret[1].cache_hit
             /\ trace[Len(trace)] = Event("extract_values", ret[1].schema.id, TRUE)
        ELSE /\ Did("infer_schema")
             /\ ret[1].schema = InferredSchema(arg)
             /\ ~ret[1].cache_hit
             /\ trace[Len(trace)] = Event("extract_values", InferredSchema(arg).id, TRUE)
             /\ Did("save") = arg.use_cache
             /\ IF arg.use_cache
                THEN /\ Len(store) = Len(arg.store) + 1
                     /\ \E n \in 1..Len(store) : store[n] = InferredSchema(arg)
                ELSE store = arg.store

C18_Witness ==
    /\ pc = "returned"
    /\ ~arg.schema_path /\ arg.mode = "two_pass"
    /\ arg.use_cache /\ ~arg.match_schema
    /\ Len(arg.store) = 2
    /\ StoredWithFingerprint = {2}
    /\ ret[1].schema = arg.store[2]
    /\ ret[1].cache_hit

\* C19: in ONE_SCHEMA_PASS mode without a schema path, run_extract fails with
\* an ExtractionError when schema_id is missing and when no stored schema has
\* that id, without any backend call and with the store unchanged; when a
\* stored schema has the id, extraction uses it.
C19_OneSchemaPass ==
    (~arg.schema_path /\ arg.mode = "one_schema_pass" /\ pc # "run") =>
        IF arg.schema_id # "" /\ \E i \in 1..Len(arg.store) : arg.store[i].id = arg.schema_id
        THEN /\ ret[1].schema.id = arg.schema_id
             /\ \E i \in 1..Len(arg.store) : arg.store[i] = ret[1].schema
             /\ pc \in {"returned", "raised"} =>
                    trace[Len(trace)] = Event("extract_values", arg.schema_id, TRUE)
        ELSE /\ pc = "raised"
             /\ ret[1].error = "ExtractionError"
             /\ ~Did("infer_schema") /\ ~Did("extract_values")
             /\ store = arg.store

C19_Witness ==
    /\ pc = "raised"
    /\ ~arg.schema_path /\ arg.mode = "one_schema_pass"
    /\ arg.schema_id = "s9"
    /\ Len(arg.store) = 2
    /\ ret[1].error = "ExtractionError"

(***************************************************************************)
(* Properties of the one-pass mode                                          *)
(***************************************************************************)
\* pages is a run of consecutive rendered pages, of at most size pages unless
\* it is the whole rendered page list
IsPageChunk(pages, size) ==
    /\ pages # <<>>
    /\ \E from \in 1..Len(arg.pages) :
          /\ from + Len(pages) - 1 <= Len(arg.pages)
          /\ pages = SubSeq(arg.pages, from, from + Len(pages) - 1)
    /\ Len(pages) <= size \/ pages = arg.pages

\* C20: in ONE_PASS mode the schema inference call comes first, over the
\* document's rendered pages, and the value extraction that follows routes
\* nothing by page: each of its backend calls asks for all the schema keys
\* over a chunk of pages, and no page-scoped call and no fallback call is
\* made, even when fields of the inferred schema carry page numbers.
C20_OnePassSchemaWide ==
    arg.caller = "extract_one_pass" =>
        /\ pc # "start" =>
              /\ calls # <<>>
              /\ calls[1] = [pages |-> arg.pages, keys |-> <<>>, phase |-> "infer_schema"]
        /\ \A n \in 2..Len(calls) :
              /\ calls[n].phase = "schema_wide"
              /\ calls[n].keys = [i \in 1..Len(arg.schema) |-> arg.schema[i].key]
              /\ IsPageChunk(calls[n].pages, IF arg.chunk_pages > 1 THEN arg.chunk_pages ELSE 1)
        /\ pc \notin {"paged", "non_paged", "fallback"}

C20_Witness ==
    /\ pc = "done"
    /\ arg.caller = "extract_one_pass"
    /\ Len(arg.schema) = 2
    /\ \A i \in 1..Len(arg.schema) : arg.schema[i].page # 0
    /\ Len(calls) = 3
    /\ ret[1].result.flat["a"] = arg.null_sentinel

(***************************************************************************)
(* Properties of run_extract and the schema store                           *)
(***************************************************************************)
\* C21: a run_extract invocation that ends by propagating an error (a backend
\* failure during value extraction, say) leaves the schema store holding
\* exactly the schemas it held before the invocation.
C21_StoreAtomicOnError ==
    pc = "raised" => store = arg.store

(***************************************************************************)
(* The two backends, called directly                                        *)
(***************************************************************************)
MaxOcrPages == 2     \* OCR payloads the provider returns
MaxOcrLines == 1     \* text lines of one OCR payload

\* _parse_key_value_line of an OCR line: key "" stands for (None, None), which
\* a line without ":" or without a key gives; the value is already trimmed
OcrLines ==
    {[key |-> "", value |-> <<>>]}
        \cup [key : {"a", "b"}, value : {<<>>, <<"x">>}]

\* One OCR payload: page_number 0 stands for a payload without an integer
\* page_number
OcrPayloads ==
    [page_number : 0..MaxPage,
     lines : UNION {[1..n -> OcrLines] : n \in 0..MaxOcrLines}]

\* _iter_page_lines: the payload's page number, or its position when it has
\* none, with the payload's lines
_iter_page_lines(ocr_pages) ==
    [index \in 1..Len(ocr_pages) |->
        [page_number |-> IF ocr_pages[index].page_number # 0
                         THEN ocr_pages[index].page_number ELSE index,
         lines |-> ocr_pages[index].lines]]

\* The lines of all pages in reading order, each with its page number
RECURSIVE LinesInOrder(_)
LinesInOrder(page_lines) ==
    IF page_lines = <<>> THEN <<>>
    ELSE [n \in 1..Len(Head(page_lines).lines) |->
             [page |-> Head(page_lines).page_number,
              key |-> Head(page_lines).lines[n].key,
              value |-> Head(page_lines).lines[n].value]]
         \o LinesInOrder(Tail(page_lines))

\* The lines kept by the loops of the OCR backend: a line with a key that is
\* wanted and that no earlier line had
FirstPerKey(lines, wanted) ==
    SelectSeq([n \in 1..Len(lines) |-> [line |-> lines[n], at |-> n]],
              LAMBDA e : /\ e.line.key \in wanted
                         /\ \A m \in 1..(e.at - 1) : lines[m].key # e.line.key)

BackendRaised == [error |-> "BackendError", fields |-> <<>>, values |-> <<>>]

BackendReturned(fields, values) == [error |-> None, fields |-> fields, values |-> values]

\* OCRBackend._ocr_pages raises when no provider is configured, and otherwise
\* returns what the provider gives for the pages
OCRBackend_ocr_pages_raises(provider) == ~provider

\* OCRBackend.infer_schema: one field per key seen, with the page of its
\* first line
OCRBackend_infer_schema(pages, provider, payloads) ==
    IF OCRBackend_ocr_pages_raises(provider) THEN BackendRaised
    ELSE LET kept == FirstPerKey(LinesInOrder(_iter_page_lines(payloads)), {"a", "b"})
         IN  BackendReturned([n \in 1..Len(kept) |->
                                 [key |-> kept[n].line.key, page |-> kept[n].line.page]], <<>>)

\* OCRBackend.extract_values: nothing for no keys; else the first line of each
\* requested key, an empty value replaced by the backend's null sentinel
OCRBackend_extract_values(pages, keys, provider, payloads, null_sentinel) ==
    IF keys = <<>> THEN BackendReturned(<<>>, <<>>)
    ELSE IF OCRBackend_ocr_pages_raises(provider) THEN BackendRaised
    ELSE LET kept == FirstPerKey(LinesInOrder(_iter_page_lines(payloads)),
                                 {keys[n] : n \in 1..Len(keys)})
         IN  BackendReturned(<<>>,
                 [n \in 1..Len(kept) |->
                     [key |-> kept[n].line.key,
                      value |-> IF kept[n].line.value = <<>> THEN null_sentinel
                                ELSE kept[n].line.value,
                      page |-> kept[n].line.page,
                      confidence |-> "medium"]])

\* MultimodalLLMBackend.infer_schema: BackendError for no pages or a failed
\* chat completion, else the fields of the reply
MultimodalLLMBackend_infer_schema(pages, reply) ==
    IF pages = <<>> THEN BackendRaised
    ELSE IF ~reply.ok THEN BackendRaised
    ELSE BackendReturned([n \in 1..Len(reply.keys) |-> [key |-> reply.keys[n], page |-> 0]], <<>>)

\* MultimodalLLMBackend.extract_values: BackendError for no pages or a failed
\* chat completion, else the values of the reply
MultimodalLLMBackend_extract_values(pages, keys, reply) ==
    IF pages = <<>> THEN BackendRaised
    ELSE IF ~reply.ok THEN BackendRaised
    ELSE BackendReturned(<<>>,
             [n \in 1..Len(reply.keys) |->
                 [key |-> reply.keys[n], value |-> <<"x">>, page |-> 0,
                  confidence |-> "unknown"]])

BackendKeyLists == {<<>>, <<"a">>, <<"b">>, <<"a", "b">>}

\* The rendered pages a backend call is given: none, or some pages in order
BackendPageLists == {SortedSeq(set) : set \in SUBSET (1..MaxPage)}

NoReply == [ok |-> FALSE, keys |-> <<>>]

InitBackend ==
    /\ pc = "backend"
    /\ \/ /\ arg \in [backend_type : {"ocr"},
                      method : {"infer_schema", "extract_values"},
                      pages : BackendPageLists,
                      keys : BackendKeyLists,
                      provider : BOOLEAN,
                      payloads : UNION {[1..n -> OcrPayloads] : n \in 0..MaxOcrPages},
                      reply : {NoReply},
                      null_sentinel : Sentinels]
          /\ arg.provider \/ arg.payloads = <<>>
       \/ arg \in [backend_type : {"multimodal"},
                   method : {"infer_schema", "extract_values"},
                   pages : BackendPageLists,
                   keys : BackendKeyLists,
                   provider : {FALSE},
                   payloads : {<<>>},
                   reply : {NoReply} \cup [ok : {TRUE}, keys : BackendKeyLists],
                   null_sentinel : Sentinels]
    /\ arg.method = "infer_schema" => arg.keys = <<>>
    /\ ret = <<>>
    /\ CollectIdle
    /\ NoRun

\* backend.infer_schema(pages)
BackendInferSchema ==
    /\ pc = "backend"
    /\ arg.method = "infer_schema"
    /\ ret' = <<IF arg.backend_type = "ocr"
                THEN OCRBackend_infer_schema(arg.pages, arg.provider, arg.payloads)
                ELSE MultimodalLLMBackend_infer_schema(arg.pages, arg.reply)>>
    /\ pc' = "backend_done"
    /\ UNCHANGED <<arg, collectVars, runVars>>

\* backend.extract_values(pages, keys)
BackendExtractValues ==
    /\ pc = "backend"
    /\ arg.method = "extract_values"
    /\ ret' = <<IF arg.backend_type = "ocr"
                THEN OCRBackend_extract_values(arg.pages, arg.keys, arg.provider,
                                               arg.payloads, arg.null_sentinel)
                ELSE MultimodalLLMBackend_extract_values(arg.pages, arg.keys, arg.reply)>>
    /\ pc' = "backend_done"
    /\ UNCHANGED <<arg, collectVars, runVars>>

NextBackend ==
    \/ BackendInferSchema
    \/ BackendExtractValues

SpecBackend == InitBackend /\ [][NextBackend]_vars

\* C22: infer_schema and extract_values of either backend, multimodal or OCR,
\* called with an empty page list fail with a backend-kind error and return
\* no schema and no values.
C22_EmptyPagesRejected ==
    (pc = "backend_done" /\ arg.pages = <<>>) =>
        /\ ret[1].error = "BackendError"
        /\ ret[1].fields = <<>>
        /\ ret[1].values = <<>>

(***************************************************************************)
(* Properties of the schema-wide path                                       *)
(***************************************************************************)
AllSchemaKeys == [i \in 1..Len(arg.schema) |-> arg.schema[i].key]

\* C23: the schema-wide path splits the page list, in order, into consecutive
\* chunks of max(chunk_pages, 1) pages, the last one possibly shorter, every
\* page in exactly one chunk (one chunk with all the pages when the chunk
\* size is at least the page count); it makes exactly one backend call per
\* chunk, each requesting every key; with an empty key list it makes no
\* backend call and returns empty results.
C23_SchemaWideChunks ==
    (pc = "done" /\ CallsOf("paged") = <<>>) =>
        LET wide == CallsOf("schema_wide")
        IN  IF AllSchemaKeys = <<>>
            THEN wide = <<>> /\ ret[1].values = <<>>
            ELSE /\ wide # <<>>
                 /\ Concat([n \in 1..Len(wide) |-> wide[n].pages]) = arg.pages
                 /\ \A n \in 1..(Len(wide) - 1) : Len(wide[n].pages) = ChunkSize
                 /\ Len(wide[Len(wide)].pages) >= 1
                 /\ Len(wide) > 1 => Len(wide[Len(wide)].pages) <= ChunkSize
                 /\ (Len(wide) = 1) = (ChunkSize >= Len(arg.pages))
                 /\ \A n \in 1..Len(wide) : wide[n].keys = AllSchemaKeys

C23_Witness ==
    /\ pc = "done"
    /\ Len(arg.pages) = 3
    /\ arg.chunk_pages = 2
    /\ Len(arg.schema) = 2
    /\ Len(CallsOf("schema_wide")) = 2
    /\ CallsOf("schema_wide")[2].pages = <<3>>

(***************************************************************************)
(* Properties of the page-scoped path                                       *)
(***************************************************************************)
\* The page-scoped round of a collection with page groups is over
PagedRoundOver ==
    /\ pc \in {"non_paged", "fallback", "done"}
    /\ arg.use_page_groups
    /\ WithPage(arg.schema) # {}

RenderedNumbers == {arg.pages[n] : n \in 1..Len(arg.pages)}

\* The physical pages the schema's fields belong to
RoutedPages == {ExpectedPage(arg.schema, i) : i \in 1..Len(arg.schema)}

\* The page-scoped calls are one call per page of the set, in ascending page
\* order, each over that single page and for the keys of that page only
OneCallPerPage(pages_called) ==
    LET paged == CallsOf("paged")
    IN  /\ Len(paged) = Cardinality(pages_called)
        /\ \A n \in 1..Len(paged) :
              /\ Len(paged[n].pages) = 1
              /\ paged[n].pages[1] \in pages_called
              /\ \A m \in 1..(n - 1) : paged[m].pages[1] < paged[n].pages[1]
              /\ {paged[n].keys[k] : k \in 1..Len(paged[n].keys)} =
                     {arg.schema[i].key : i \in {j \in 1..Len(arg.schema) :
                          ExpectedPage(arg.schema, j) = paged[n].pages[1]}}
              /\ \A k, l \in 1..Len(paged[n].keys) :
                     paged[n].keys[k] = paged[n].keys[l] => k = l

\* C24 as claimed: with page-group routing enabled and a non-empty routing
\* table the collector makes exactly one backend call per physical page that
\* has routed keys, in ascending page order, each over that single page and
\* for the keys routed to it only, a field with logical page N being asked
\* for on the physical page the page map gives for N.
C24_OneCallPerRoutedPage ==
    PagedRoundOver => OneCallPerPage(RoutedPages)

\* C24 as amended: the same, for the physical pages with routed keys that are
\* among the rendered pages; a page with routed keys that was not rendered
\* gets no page-scoped call.
C24_OneCallPerRenderedRoutedPage ==
    PagedRoundOver => OneCallPerPage(RoutedPages \cap RenderedNumbers)

C24_Witness ==
    /\ pc = "done"
    /\ PagedRoundOver
    /\ Len(CallsOf("paged")) = 1
    /\ Cardinality(RoutedPages) = 2
    /\ arg.page_map # <<>>
    /\ arg.page_map[1] # 1

\* A value that, once trimmed, is not empty and is neither the configured null
\* sentinel nor the string "NULL"
IsUsableValue(value) ==
    /\ ~TrimmedEmpty(value)
    /\ Strip(value) \notin {arg.null_sentinel, NULL}

\* The routed keys without a usable value among the values collected before
\* the fallback decision
MissingRoutedKeys ==
    {arg.schema[i].key : i \in 1..Len(arg.schema)}
        \ {extracted[i].key : i \in {j \in 1..Len(extracted) : IsUsableValue(extracted[j].value)}}

\* C25: after the page-scoped calls a fallback extraction is issued if and
\* only if some routed key has no collected value that is non-empty after
\* trimming and different from both the run's configured null sentinel and
\* the string "NULL"; the fallback requests exactly those keys, for every
\* backend type and every configured sentinel.
C25_FallbackIffMissing ==
    (pc = "done" /\ arg.use_page_groups /\ WithPage(arg.schema) # {}) =>
        LET fallback == CallsOf("fallback")
        IN  /\ (fallback # <<>>) = (MissingRoutedKeys # {})
            /\ \A n \in 1..Len(fallback) : fallback[n].keys = SortedKeys(MissingRoutedKeys)

(***************************************************************************)
(* Properties of successive run_extract invocations                         *)
(***************************************************************************)
\* What the running invocation has done so far
CurrentTrace ==
    LET begun == {n \in 1..Len(trace) : trace[n].op = "run_extract"}
    IN  IF begun = {} THEN trace
        ELSE SubSeq(trace, 1 + (CHOOSE n \in begun : \A m \in begun : m <= n), Len(trace))

DidNow(op) == \E n \in 1..Len(CurrentTrace) : CurrentTrace[n].op = op

\* The schemas earlier invocations inferred and saved for a document with the
\* fingerprint of the running invocation's document
SavedEarlierForDocument ==
    {i \in 1..Len(arg.store) :
        /\ arg.store[i].fingerprint = arg.fingerprint
        /\ \E n \in 1..(Len(trace) - Len(CurrentTrace)) :
               trace[n].op = "save" /\ trace[n].schema_id = arg.store[i].id}

\* C26: once a run in TWO_PASS mode with use_cache has inferred and saved a
\* schema for a document, every later run in TWO_PASS mode with use_cache or
\* match_schema set, on a document with the same fingerprint, finds that
\* schema: it infers no schema, saves nothing, extracts with that schema and
\* reports cache_hit = true.
C26_SavedSchemaIsReused ==
    (~arg.schema_path /\ arg.mode = "two_pass" /\ (arg.use_cache \/ arg.match_schema)) =>
        \A i \in SavedEarlierForDocument :
            /\ ~DidNow("infer_schema")
            /\ ~DidNow("save")
            /\ store = arg.store
            /\ pc # "run" =>
                  /\ DidNow("match_schema")
                  /\ ret[1].schema = arg.store[i]
                  /\ ret[1].cache_hit

C26_Witness ==
    /\ pc = "returned"
    /\ RunsBegun = 3
    /\ ~arg.schema_path /\ arg.mode = "two_pass"
    /\ ~arg.use_cache /\ arg.match_schema
    /\ SavedEarlierForDocument = {2}
    /\ ret[1].cache_hit

\* C27: from an empty store, whatever run_extract invocations of whatever
\* modes and flags are run one after another, the store never holds two
\* schemas of one document fingerprint, and an invocation adds at most one
\* schema to the store (and removes none).
C27_OneSchemaPerFingerprint ==
    /\ \A i, j \in 1..Len(store) : store[i].fingerprint = store[j].fingerprint => i = j
    /\ Len(store) <= Len(arg.store) + 1
    /\ \A i \in 1..Len(arg.store) : \E j \in 1..Len(store) : store[j] = arg.store[i]

C27_Witness ==
    /\ pc = "returned"
    /\ RunsBegun = 3
    /\ Len(arg.store) = 1
    /\ Len(store) = 2
    /\ DidNow("save")

\* The key is in the key list of a backend call of the phase
RequestedIn(phase, key) ==
    \E n \in 1..Len(calls) :
        /\ calls[n].phase = phase
        /\ \E k \in 1..Len(calls[n].keys) : calls[n].keys[k] = key

SentinelOrNonBlank(value) ==
    /\ value # <<>>
    /\ value = arg.null_sentinel \/ ~TrimmedEmpty(value)

\* C29: every value of the final result, each fields entry and each flat
\* entry, is a non-empty string, the null sentinel or a non-blank normalized
\* value, for every field kind and every non-blank value of the backend.
C29_ResultValuesNonEmpty ==
    pc = "assembled" =>
        /\ \A i \in 1..Len(ret[1].fields) : SentinelOrNonBlank(ret[1].fields[i].value)
        /\ \A key \in DOMAIN ret[1].flat : SentinelOrNonBlank(ret[1].flat[key])

(***************************************************************************)
(* Termination of a collection                                              *)
(***************************************************************************)
\* The backend calls of the collection (the inference call of the one-pass
\* mode is not one of them)
ExtractionCalls == SelectSeq(calls, LAMBDA call : call.phase \in GatherPhases)

\* ceil(N / c) for N rendered pages and c = max(chunk_pages, 1)
ChunkCount == (Len(arg.pages) + ChunkSize - 1) \div ChunkSize

\* P: the pages with routed keys
RoutedPageCount == Cardinality(DOMAIN KeysByPage)

\* C30: a collection whose backend calls all end terminates, and it makes at
\* most P + 2 * ceil(N / c) backend calls, for P pages with routed keys, N
\* rendered pages and c = max(chunk_pages, 1); the fallback round runs at
\* most once, and is not run again when its answers are still blank or the
\* null sentinel.
C30_CollectionTerminates ==
    /\ [](/\ Len(ExtractionCalls) <= RoutedPageCount + 2 * ChunkCount
          /\ Len(CallsOf("fallback")) <= ChunkCount)
    /\ <>(pc \in {"done", "failed"})

C30_Witness ==
    /\ pc = "done"
    /\ Len(CallsOf("fallback")) = 2
    /\ Len(CallsOf("paged")) = 2
    /\ \E n \in 1..Len(FallbackValues) : ~IsUsable(FallbackValues[n].value)

====
